---- MODULE Spec2Model ----
(***************************************************************************)
(* Model of the data-lake setup program of src/main.go: init() reads the   *)
(* configuration, main() runs createS3Bucket, createGlueDatabase,          *)
(* fetchNBAData, uploadDataToS3, createGlueTable and configureAthena in    *)
(* sequence and stops at the first error.                                  *)
(*                                                                         *)
(* Text (an HTTP body, an error message, a URL, the uploaded object) is a  *)
(* sequence of bytes, so that Len is the byte length and single bytes such *)
(* as the newline can be counted.  A byte is written as a string: the      *)
(* character itself for tab, newline, carriage return and the printable    *)
(* ASCII characters other than the grave accent, and "x" followed by two   *)
(* hexadecimal digits for every other byte ("x08" is the backspace, "xc3"  *)
(* "xa9" the UTF-8 form of U+00E9).                                        *)
(***************************************************************************)
EXTENDS Integers, Sequences, FiniteSets, TLC

----------------------------------------------------------------------------
(* Text *)

\* The 256 bytes in order of their value, 0 first.
Bytes ==
  << "x00", "x01", "x02", "x03", "x04", "x05", "x06", "x07", "x08", "\t",
     "\n", "x0b", "x0c", "\r", "x0e", "x0f", "x10", "x11", "x12", "x13",
     "x14", "x15", "x16", "x17", "x18", "x19", "x1a", "x1b", "x1c", "x1d",
     "x1e", "x1f", " ", "!", "\"", "#", "$", "%", "&", "'", "(", ")", "*",
     "+", ",", "-", ".", "/", "0", "1", "2", "3", "4", "5", "6", "7", "8",
     "9", ":", ";", "<", "=", ">", "?", "@", "A", "B", "C", "D", "E", "F",
     "G", "H", "I", "J", "K", "L", "M", "N", "O", "P", "Q", "R", "S", "T",
     "U", "V", "W", "X", "Y", "Z", "[", "\\", "]", "^", "_", "x60", "a",
     "b", "c", "d", "e", "f", "g", "h", "i", "j", "k", "l", "m", "n", "o",
     "p", "q", "r", "s", "t", "u", "v", "w", "x", "y", "z", "{", "|", "}",
     "~", "x7f", "x80", "x81", "x82", "x83", "x84", "x85", "x86", "x87",
     "x88", "x89", "x8a", "x8b", "x8c", "x8d", "x8e", "x8f", "x90", "x91",
     "x92", "x93", "x94", "x95", "x96", "x97", "x98", "x99", "x9a", "x9b",
     "x9c", "x9d", "x9e", "x9f", "xa0", "xa1", "xa2", "xa3", "xa4", "xa5",
     "xa6", "xa7", "xa8", "xa9", "xaa", "xab", "xac", "xad", "xae", "xaf",
     "xb0", "xb1", "xb2", "xb3", "xb4", "xb5", "xb6", "xb7", "xb8", "xb9",
     "xba", "xbb", "xbc", "xbd", "xbe", "xbf", "xc0", "xc1", "xc2", "xc3",
     "xc4", "xc5", "xc6", "xc7", "xc8", "xc9", "xca", "xcb", "xcc", "xcd",
     "xce", "xcf", "xd0", "xd1", "xd2", "xd3", "xd4", "xd5", "xd6", "xd7",
     "xd8", "xd9", "xda", "xdb", "xdc", "xdd", "xde", "xdf", "xe0", "xe1",
     "xe2", "xe3", "xe4", "xe5", "xe6", "xe7", "xe8", "xe9", "xea", "xeb",
     "xec", "xed", "xee", "xef", "xf0", "xf1", "xf2", "xf3", "xf4", "xf5",
     "xf6", "xf7", "xf8", "xf9", "xfa", "xfb", "xfc", "xfd", "xfe", "xff" >>

\* The value of a byte, and the byte of a value.
ByteOf(c) == (CHOOSE i \in 1..256 : Bytes[i] = c) - 1

Chr(b) == Bytes[b + 1]

\* The hexadecimal digits, the decimal ones first.
HexChars ==
  << "0", "1", "2", "3", "4", "5", "6", "7", "8", "9", "a", "b", "c", "d",
     "e", "f" >>

IsDigit(c) == c \in {"0", "1", "2", "3", "4", "5", "6", "7", "8", "9"}

DigitVal(c) == ByteOf(c) - 48

IsUpper(c) == ByteOf(c) >= 65 /\ ByteOf(c) <= 90

IsLetter(c) == IsUpper(c) \/ (ByteOf(c) >= 97 /\ ByteOf(c) <= 122)

IsHex(c) ==
  \/ IsDigit(c)
  \/ c \in {"a", "b", "c", "d", "e", "f", "A", "B", "C", "D", "E", "F"}

HexVal(c) ==
  IF IsDigit(c) THEN DigitVal(c)
  ELSE IF IsUpper(c) THEN ByteOf(c) - 55
  ELSE ByteOf(c) - 87

\* The n lower-case hexadecimal digits of a value below 16^n (n at most 8).
HexN(v, n) == [k \in 1..n |-> HexChars[((v \div (16 ^ (n - k))) % 16) + 1]]

\* The two lower-case hexadecimal digits of a byte value.
Hex2(b) == HexN(b, 2)

\* strconv / fmt's %d: the decimal digits of an integer.
RECURSIVE FormatNat(_)
FormatNat(n) ==
  IF n < 10 THEN << HexChars[n + 1] >>
  ELSE FormatNat(n \div 10) \o << HexChars[(n % 10) + 1] >>

FormatInt(n) == IF n < 0 THEN << "-" >> \o FormatNat(0 - n) ELSE FormatNat(n)

\* strings.Contains, strings.HasPrefix, strings.Index and
\* strings.LastIndex for a single byte (0 when it does not occur).
Contains(s, sub) ==
  \E i \in 0..(Len(s) - Len(sub)) :
    \A j \in 1..Len(sub) : s[i + j] = sub[j]

HasPrefix(s, p) ==
  Len(p) <= Len(s) /\ \A j \in 1..Len(p) : s[j] = p[j]

IndexOf(s, c) ==
  IF \E i \in 1..Len(s) : s[i] = c
  THEN CHOOSE i \in 1..Len(s) : s[i] = c /\ \A j \in 1..(i - 1) : s[j] # c
  ELSE 0

LastIndexOf(s, c) ==
  IF \E i \in 1..Len(s) : s[i] = c
  THEN CHOOSE i \in 1..Len(s) :
         s[i] = c /\ \A j \in (i + 1)..Len(s) : s[j] # c
  ELSE 0

\* s[:n] and s[n:] of Go, n counted from 0.
Take(s, n) == SubSeq(s, 1, n)

Drop(s, n) == SubSeq(s, n + 1, Len(s))

\* Bytewise string order, the order encoding/json sorts map keys in.
RECURSIVE TextLess(_, _)
TextLess(a, b) ==
  IF b = << >> THEN FALSE
  ELSE IF a = << >> THEN TRUE
  ELSE IF Head(a) # Head(b) THEN ByteOf(Head(a)) < ByteOf(Head(b))
  ELSE TextLess(Tail(a), Tail(b))

----------------------------------------------------------------------------
(* UTF-8, as unicode/utf8 decodes and encodes it. *)

\* utf8.DecodeRune at position i, whose byte b is 0x80 or more: the number
\* of bytes of the encoded rune, or 0 when the bytes are no valid encoding
\* (a stray continuation byte, an overlong form, a surrogate, a value above
\* U+10FFFF, a truncated sequence).
Utf8Width(s, i, b) ==
  LET \* Whether the byte at position i exists and lies in lo..hi.
      InRange(text, at, lo, hi) ==
        at <= Len(text) /\ ByteOf(text[at]) >= lo /\ ByteOf(text[at]) <= hi
  IN
  IF b >= 194 /\ b <= 223
  THEN IF InRange(s, i + 1, 128, 191) THEN 2 ELSE 0
  ELSE IF b >= 224 /\ b <= 239
  THEN IF /\ InRange(s, i + 1, IF b = 224 THEN 160 ELSE 128,
                               IF b = 237 THEN 159 ELSE 191)
          /\ InRange(s, i + 2, 128, 191)
       THEN 3 ELSE 0
  ELSE IF b >= 240 /\ b <= 244
  THEN IF /\ InRange(s, i + 1, IF b = 240 THEN 144 ELSE 128,
                               IF b = 244 THEN 143 ELSE 191)
          /\ InRange(s, i + 2, 128, 191)
          /\ InRange(s, i + 3, 128, 191)
       THEN 4 ELSE 0
  ELSE 0

\* utf8.EncodeRune for a code point that is no surrogate.
EncodeRune(cp) ==
  IF cp < 128 THEN << Chr(cp) >>
  ELSE IF cp < 2048 THEN << Chr(192 + (cp \div 64)), Chr(128 + (cp % 64)) >>
  ELSE IF cp < 65536
  THEN << Chr(224 + (cp \div 4096)), Chr(128 + ((cp \div 64) % 64)),
          Chr(128 + (cp % 64)) >>
  ELSE << Chr(240 + (cp \div 262144)), Chr(128 + ((cp \div 4096) % 64)),
          Chr(128 + ((cp \div 64) % 64)), Chr(128 + (cp % 64)) >>

\* The rune that utf8.DecodeRune reads at position i when its encoding has
\* the given width (1 to 4).
RuneAt(s, i, width) ==
  IF width = 1 THEN ByteOf(s[i])
  ELSE IF width = 2
  THEN (ByteOf(s[i]) - 192) * 64 + (ByteOf(s[i + 1]) - 128)
  ELSE IF width = 3
  THEN (ByteOf(s[i]) - 224) * 4096 + (ByteOf(s[i + 1]) - 128) * 64
         + (ByteOf(s[i + 2]) - 128)
  ELSE (ByteOf(s[i]) - 240) * 262144 + (ByteOf(s[i + 1]) - 128) * 4096
         + (ByteOf(s[i + 2]) - 128) * 64 + (ByteOf(s[i + 3]) - 128)

\* U+FFFD, unicode.ReplacementChar, in UTF-8.
ReplacementChar == << "xef", "xbf", "xbd" >>

----------------------------------------------------------------------------
(* strconv.IsPrint and its tables (strconv/isprint.go, generated from the   *)
(* categories L, M, N, P and S of Unicode 15.0.0, the version of Go 1.21   *)
(* and later).  isPrint16 and isPrint32 hold the ranges of printable runes *)
(* as pairs of a first and a last rune, isNotPrint16 and isNotPrint32 the  *)
(* runes inside a range that are not printable, those of isNotPrint32      *)
(* less 0x10000.                                                           *)

isPrint16 ==
  << 32, 126, 161, 887, 890, 895, 900, 1366, 1369, 1418, 1421, 1479, 1488,
     1514, 1519, 1524, 1542, 1805, 1808, 1866, 1869, 1969, 1984, 2042,
     2045, 2093, 2096, 2139, 2142, 2154, 2160, 2190, 2200, 2444, 2447,
     2448, 2451, 2482, 2486, 2489, 2492, 2500, 2503, 2504, 2507, 2510,
     2519, 2519, 2524, 2531, 2534, 2558, 2561, 2570, 2575, 2576, 2579,
     2617, 2620, 2626, 2631, 2632, 2635, 2637, 2641, 2641, 2649, 2654,
     2662, 2678, 2689, 2745, 2748, 2765, 2768, 2768, 2784, 2787, 2790,
     2801, 2809, 2828, 2831, 2832, 2835, 2873, 2876, 2884, 2887, 2888,
     2891, 2893, 2901, 2903, 2908, 2915, 2918, 2935, 2946, 2954, 2958,
     2965, 2969, 2975, 2979, 2980, 2984, 2986, 2990, 3001, 3006, 3010,
     3014, 3021, 3024, 3024, 3031, 3031, 3046, 3066, 3072, 3129, 3132,
     3149, 3157, 3162, 3165, 3165, 3168, 3171, 3174, 3183, 3191, 3257,
     3260, 3277, 3285, 3286, 3293, 3299, 3302, 3315, 3328, 3407, 3412,
     3427, 3430, 3478, 3482, 3517, 3520, 3526, 3530, 3530, 3535, 3551,
     3558, 3567, 3570, 3572, 3585, 3642, 3647, 3675, 3713, 3773, 3776,
     3801, 3804, 3807, 3840, 3948, 3953, 4058, 4096, 4295, 4301, 4301,
     4304, 4685, 4688, 4701, 4704, 4749, 4752, 4789, 4792, 4805, 4808,
     4885, 4888, 4954, 4957, 4988, 4992, 5017, 5024, 5109, 5112, 5117,
     5120, 5788, 5792, 5880, 5888, 5909, 5919, 5942, 5952, 5971, 5984,
     6003, 6016, 6109, 6112, 6121, 6128, 6137, 6144, 6169, 6176, 6264,
     6272, 6314, 6320, 6389, 6400, 6443, 6448, 6459, 6464, 6464, 6468,
     6509, 6512, 6516, 6528, 6571, 6576, 6601, 6608, 6618, 6622, 6683,
     6686, 6780, 6783, 6793, 6800, 6809, 6816, 6829, 6832, 6862, 6912,
     6988, 6992, 7155, 7164, 7223, 7227, 7241, 7245, 7304, 7312, 7354,
     7357, 7367, 7376, 7418, 7424, 7957, 7960, 7965, 7968, 8005, 8008,
     8013, 8016, 8061, 8064, 8147, 8150, 8175, 8178, 8190, 8208, 8231,
     8240, 8286, 8304, 8305, 8308, 8348, 8352, 8384, 8400, 8432, 8448,
     8587, 8592, 9254, 9280, 9290, 9312, 11123, 11126, 11507, 11513, 11559,
     11565, 11565, 11568, 11623, 11631, 11632, 11647, 11670, 11680, 11869,
     11904, 12019, 12032, 12245, 12272, 12283, 12289, 12438, 12441, 12543,
     12549, 12771, 12784, 42124, 42128, 42182, 42192, 42539, 42560, 42743,
     42752, 42954, 42960, 42969, 42994, 43052, 43056, 43065, 43072, 43127,
     43136, 43205, 43214, 43225, 43232, 43347, 43359, 43388, 43392, 43481,
     43486, 43574, 43584, 43597, 43600, 43609, 43612, 43714, 43739, 43766,
     43777, 43782, 43785, 43790, 43793, 43798, 43808, 43883, 43888, 44013,
     44016, 44025, 44032, 55203, 55216, 55238, 55243, 55291, 63744, 64109,
     64112, 64217, 64256, 64262, 64275, 64279, 64285, 64450, 64467, 64911,
     64914, 64967, 64975, 64975, 65008, 65049, 65056, 65131, 65136, 65276,
     65281, 65470, 65474, 65479, 65482, 65487, 65490, 65495, 65498, 65500,
     65504, 65518, 65532, 65533 >>

isNotPrint16 ==
  << 173, 907, 909, 930, 1328, 1424, 1564, 1757, 2111, 2143, 2274, 2436,
     2473, 2481, 2526, 2564, 2601, 2609, 2612, 2615, 2621, 2653, 2692,
     2702, 2706, 2729, 2737, 2740, 2758, 2762, 2816, 2820, 2857, 2865,
     2868, 2910, 2948, 2961, 2971, 2973, 3017, 3085, 3089, 3113, 3141,
     3145, 3159, 3213, 3217, 3241, 3252, 3269, 3273, 3295, 3312, 3341,
     3345, 3397, 3401, 3456, 3460, 3506, 3516, 3541, 3543, 3715, 3717,
     3723, 3748, 3750, 3781, 3783, 3791, 3912, 3992, 4029, 4045, 4294,
     4681, 4695, 4697, 4745, 4785, 4799, 4801, 4823, 4881, 5760, 5997,
     6001, 6158, 6431, 6751, 7039, 8024, 8026, 8028, 8030, 8117, 8133,
     8156, 8181, 8335, 11158, 11558, 11687, 11695, 11703, 11711, 11719,
     11727, 11735, 11743, 11930, 12352, 12592, 12687, 12831, 42962, 42964,
     43470, 43519, 43815, 43823, 64311, 64317, 64319, 64322, 64325, 65107,
     65127, 65141, 65511 >>

isPrint32 ==
  << 65536, 65613, 65616, 65629, 65664, 65786, 65792, 65794, 65799, 65843,
     65847, 65948, 65952, 65952, 66000, 66045, 66176, 66204, 66208, 66256,
     66272, 66299, 66304, 66339, 66349, 66378, 66384, 66426, 66432, 66499,
     66504, 66517, 66560, 66717, 66720, 66729, 66736, 66771, 66776, 66811,
     66816, 66855, 66864, 66915, 66927, 67004, 67072, 67382, 67392, 67413,
     67424, 67431, 67456, 67514, 67584, 67589, 67592, 67640, 67644, 67644,
     67647, 67742, 67751, 67759, 67808, 67829, 67835, 67867, 67871, 67897,
     67903, 67903, 67968, 68023, 68028, 68047, 68050, 68102, 68108, 68149,
     68152, 68154, 68159, 68168, 68176, 68184, 68192, 68255, 68288, 68326,
     68331, 68342, 68352, 68405, 68409, 68437, 68440, 68466, 68472, 68497,
     68505, 68508, 68521, 68527, 68608, 68680, 68736, 68786, 68800, 68850,
     68858, 68903, 68912, 68921, 69216, 69293, 69296, 69297, 69373, 69415,
     69424, 69465, 69488, 69513, 69552, 69579, 69600, 69622, 69632, 69709,
     69714, 69749, 69759, 69826, 69840, 69864, 69872, 69881, 69888, 69959,
     69968, 70006, 70016, 70132, 70144, 70209, 70272, 70313, 70320, 70378,
     70384, 70393, 70400, 70412, 70415, 70416, 70419, 70468, 70471, 70472,
     70475, 70477, 70480, 70480, 70487, 70487, 70493, 70499, 70502, 70508,
     70512, 70516, 70656, 70753, 70784, 70855, 70864, 70873, 71040, 71093,
     71096, 71133, 71168, 71236, 71248, 71257, 71264, 71276, 71296, 71353,
     71360, 71369, 71424, 71450, 71453, 71467, 71472, 71494, 71680, 71739,
     71840, 71922, 71935, 71942, 71945, 71945, 71948, 71992, 71995, 72006,
     72016, 72025, 72096, 72103, 72106, 72151, 72154, 72164, 72192, 72263,
     72272, 72354, 72368, 72440, 72448, 72457, 72704, 72773, 72784, 72812,
     72816, 72847, 72850, 72886, 72960, 73014, 73018, 73031, 73040, 73049,
     73056, 73112, 73120, 73129, 73440, 73464, 73472, 73530, 73534, 73561,
     73648, 73648, 73664, 73713, 73727, 74649, 74752, 74868, 74880, 75075,
     77712, 77810, 77824, 78895, 78912, 78933, 82944, 83526, 92160, 92728,
     92736, 92777, 92782, 92873, 92880, 92909, 92912, 92917, 92928, 92997,
     93008, 93047, 93053, 93071, 93760, 93850, 93952, 94026, 94031, 94087,
     94095, 94111, 94176, 94180, 94192, 94193, 94208, 100343, 100352,
     101589, 101632, 101640, 110576, 110882, 110898, 110898, 110928,
     110930, 110933, 110933, 110948, 110951, 110960, 111355, 113664,
     113770, 113776, 113788, 113792, 113800, 113808, 113817, 113820,
     113823, 118528, 118573, 118576, 118598, 118608, 118723, 118784,
     119029, 119040, 119078, 119081, 119154, 119163, 119274, 119296,
     119365, 119488, 119507, 119520, 119539, 119552, 119638, 119648,
     119672, 119808, 119967, 119970, 119970, 119973, 119974, 119977,
     120074, 120077, 120134, 120138, 120485, 120488, 120779, 120782,
     121483, 121499, 121519, 122624, 122654, 122661, 122666, 122880,
     122904, 122907, 122922, 122928, 122989, 123023, 123023, 123136,
     123180, 123184, 123197, 123200, 123209, 123214, 123215, 123536,
     123566, 123584, 123641, 123647, 123647, 124112, 124153, 124896,
     125124, 125127, 125142, 125184, 125259, 125264, 125273, 125278,
     125279, 126065, 126132, 126209, 126269, 126464, 126500, 126503,
     126523, 126530, 126530, 126535, 126548, 126551, 126564, 126567,
     126619, 126625, 126651, 126704, 126705, 126976, 127019, 127024,
     127123, 127136, 127150, 127153, 127221, 127232, 127405, 127462,
     127490, 127504, 127547, 127552, 127560, 127568, 127569, 127584,
     127589, 127744, 128727, 128732, 128748, 128752, 128764, 128768,
     128886, 128891, 128985, 128992, 129003, 129008, 129008, 129024,
     129035, 129040, 129095, 129104, 129113, 129120, 129159, 129168,
     129197, 129200, 129201, 129280, 129619, 129632, 129645, 129648,
     129660, 129664, 129672, 129680, 129733, 129742, 129755, 129760,
     129768, 129776, 129784, 129792, 129994, 130032, 130041, 131072,
     173791, 173824, 177977, 177984, 178205, 178208, 183969, 183984,
     191456, 194560, 195101, 196608, 201546, 201552, 205743, 917760,
     917999 >>

isNotPrint32 ==
  << 12, 39, 59, 62, 399, 926, 1403, 1419, 1427, 1430, 1442, 1458, 1466,
     1926, 1969, 2057, 2102, 2134, 2291, 2564, 2580, 2584, 3711, 3754,
     4285, 4405, 4576, 4626, 4743, 4745, 4750, 4766, 4868, 4905, 4913,
     4916, 4922, 5212, 6420, 6423, 6454, 7177, 7223, 7336, 7431, 7434,
     7483, 7486, 7526, 7529, 7567, 7570, 7953, 9327, 27231, 27327, 27482,
     27490, 45044, 45052, 45055, 54357, 54429, 54445, 54458, 54460, 54468,
     54534, 54549, 54557, 54586, 54591, 54597, 54609, 55968, 57351, 57378,
     57381, 59367, 59372, 59375, 59391, 60932, 60960, 60963, 60968, 60979,
     60984, 60986, 61000, 61002, 61004, 61008, 61011, 61016, 61018, 61020,
     61022, 61024, 61027, 61035, 61043, 61048, 61053, 61055, 61066, 61092,
     61098, 61632, 61648, 64190, 64403 >>

\* Whether r lies in one of the ranges of a table of pairs.
InRanges(table, r) ==
  \E k \in 1..(Len(table) \div 2) : table[2 * k - 1] <= r /\ r <= table[2 * k]

\* strconv.IsPrint: Latin-1 by comparison, the other runes by the tables;
\* no rune from U+20000 on is excepted.
IsPrint(r) ==
  IF r <= 255
  THEN (32 <= r /\ r <= 126) \/ (161 <= r /\ r # 173)
  ELSE IF r < 65536
  THEN /\ InRanges(isPrint16, r)
       /\ \A j \in 1..Len(isNotPrint16) : isNotPrint16[j] # r
  ELSE /\ InRanges(isPrint32, r)
       /\ \/ r >= 131072
          \/ \A j \in 1..Len(isNotPrint32) : isNotPrint32[j] # r - 65536

----------------------------------------------------------------------------
(* strconv.Quote, the %q of fmt: the text between double quotes, with Go's *)
(* escapes.                                                                *)

\* appendEscapedRune for a valid rune r: the quote and the backslash behind
\* a backslash, a printable rune as it is, the control characters by letter
\* or as \xXX, every other rune as \uXXXX, or \UXXXXXXXX from U+10000 on.
appendEscapedRune(r) ==
  IF r = 34 \/ r = 92 THEN << "\\", Chr(r) >>
  ELSE IF IsPrint(r) THEN EncodeRune(r)
  ELSE IF r = 7 THEN << "\\", "a" >>
  ELSE IF r = 8 THEN << "\\", "b" >>
  ELSE IF r = 12 THEN << "\\", "f" >>
  ELSE IF r = 10 THEN << "\\", "n" >>
  ELSE IF r = 13 THEN << "\\", "r" >>
  ELSE IF r = 9 THEN << "\\", "t" >>
  ELSE IF r = 11 THEN << "\\", "v" >>
  ELSE IF r < 32 \/ r = 127 THEN << "\\", "x" >> \o Hex2(r)
  ELSE IF r < 65536 THEN << "\\", "u" >> \o HexN(r, 4)
  ELSE << "\\", "U" >> \o HexN(r, 8)

\* appendQuotedWith from position i: rune by rune, a byte that starts no
\* valid rune as \xXX.
RECURSIVE QuoteFrom(_, _)
QuoteFrom(s, i) ==
  LET QuoteNext(b, width) ==
        IF b < 128 THEN appendEscapedRune(b) \o QuoteFrom(s, i + 1)
        ELSE IF width = 0
        THEN << "\\", "x" >> \o Hex2(b) \o QuoteFrom(s, i + 1)
        ELSE appendEscapedRune(RuneAt(s, i, width)) \o QuoteFrom(s, i + width)
  IN IF i > Len(s) THEN << >>
     ELSE QuoteNext(ByteOf(s[i]), Utf8Width(s, i, ByteOf(s[i])))

Quote(s) == << "\"" >> \o QuoteFrom(s, 1) \o << "\"" >>

----------------------------------------------------------------------------
(* Go values held in an interface{} after json.Decoder.Decode: nil, bool,  *)
(* float64, string, []interface{} and map[string]interface{}.              *)
(*                                                                         *)
(* A float64 is held as the shortest decimal number that denotes it, the   *)
(* one strconv.FormatFloat(f, 'g', -1, 64) prints: a sign, the significant *)
(* digits without leading and trailing zeros, and the position dp of the   *)
(* decimal point, the value being 0.d1d2...dn times ten to the power dp    *)
(* (zero has no digits, and keeps its sign).  Two float64 are equal        *)
(* exactly when their shortest decimals are.                               *)

JNull == [t |-> "nil"]
JBool(b) == [t |-> "bool", b |-> b]
JNum(neg, digits, dp) ==
  [t |-> "float64", neg |-> neg, digits |-> digits, dp |-> dp]
JStr(s) == [t |-> "string", s |-> s]
JArr(a) == [t |-> "slice", a |-> a]
JObj(m) == [t |-> "map", m |-> m]

EmptyMap == [x \in {} |-> JNull]

----------------------------------------------------------------------------
(* encoding/json, the scanner of scanner.go.  The scanner is a state       *)
(* machine fed one byte at a time: step names the state function, stack    *)
(* is parseState.  A step answers with a code (continue, end for scanEnd,  *)
(* endComposite for scanEndObject and scanEndArray, error), the next       *)
(* state, and the message of the syntax error when there is one.           *)

\* The texts of encoding/json: the scanner's messages and the contexts
\* they name, the decoder's errors, and the three literals.
JSONText ==
  [invalidCharacter |->  \* invalid character 
     << "i", "n", "v", "a", "l", "i", "d", " ", "c", "h", "a", "r", "a",
        "c", "t", "e", "r", " " >>,
   beginValue |->  \* looking for beginning of value
     << "l", "o", "o", "k", "i", "n", "g", " ", "f", "o", "r", " ", "b",
        "e", "g", "i", "n", "n", "i", "n", "g", " ", "o", "f", " ", "v",
        "a", "l", "u", "e" >>,
   beginString |->  \* looking for beginning of object key string
     << "l", "o", "o", "k", "i", "n", "g", " ", "f", "o", "r", " ", "b",
        "e", "g", "i", "n", "n", "i", "n", "g", " ", "o", "f", " ", "o",
        "b", "j", "e", "c", "t", " ", "k", "e", "y", " ", "s", "t", "r",
        "i", "n", "g" >>,
   afterKey |->  \* after object key
     << "a", "f", "t", "e", "r", " ", "o", "b", "j", "e", "c", "t", " ",
        "k", "e", "y" >>,
   afterPair |->  \* after object key:value pair
     << "a", "f", "t", "e", "r", " ", "o", "b", "j", "e", "c", "t", " ",
        "k", "e", "y", ":", "v", "a", "l", "u", "e", " ", "p", "a", "i",
        "r" >>,
   afterElement |->  \* after array element
     << "a", "f", "t", "e", "r", " ", "a", "r", "r", "a", "y", " ", "e",
        "l", "e", "m", "e", "n", "t" >>,
   inString |->  \* in string literal
     << "i", "n", " ", "s", "t", "r", "i", "n", "g", " ", "l", "i", "t",
        "e", "r", "a", "l" >>,
   inEscape |->  \* in string escape code
     << "i", "n", " ", "s", "t", "r", "i", "n", "g", " ", "e", "s", "c",
        "a", "p", "e", " ", "c", "o", "d", "e" >>,
   inHexEscape |->  \* in \u hexadecimal character escape
     << "i", "n", " ", "\\", "u", " ", "h", "e", "x", "a", "d", "e", "c",
        "i", "m", "a", "l", " ", "c", "h", "a", "r", "a", "c", "t", "e",
        "r", " ", "e", "s", "c", "a", "p", "e" >>,
   inNumber |->  \* in numeric literal
     << "i", "n", " ", "n", "u", "m", "e", "r", "i", "c", " ", "l", "i",
        "t", "e", "r", "a", "l" >>,
   afterPoint |->  \* after decimal point in numeric literal
     << "a", "f", "t", "e", "r", " ", "d", "e", "c", "i", "m", "a", "l",
        " ", "p", "o", "i", "n", "t", " ", "i", "n", " ", "n", "u", "m",
        "e", "r", "i", "c", " ", "l", "i", "t", "e", "r", "a", "l" >>,
   inExponent |->  \* in exponent of numeric literal
     << "i", "n", " ", "e", "x", "p", "o", "n", "e", "n", "t", " ", "o",
        "f", " ", "n", "u", "m", "e", "r", "i", "c", " ", "l", "i", "t",
        "e", "r", "a", "l" >>,
   inLiteral |->  \* in literal 
     << "i", "n", " ", "l", "i", "t", "e", "r", "a", "l", " " >>,
   maxDepth |->  \* exceeded max depth
     << "e", "x", "c", "e", "e", "d", "e", "d", " ", "m", "a", "x", " ",
        "d", "e", "p", "t", "h" >>,
   expecting |->  \*  (expecting 
     << " ", "(", "e", "x", "p", "e", "c", "t", "i", "n", "g", " " >>,
   eof |->  \* EOF
     << "E", "O", "F" >>,
   unexpectedEOF |->  \* unexpected EOF
     << "u", "n", "e", "x", "p", "e", "c", "t", "e", "d", " ", "E", "O",
        "F" >>,
   cannotUnmarshal |->  \* json: cannot unmarshal number 
     << "j", "s", "o", "n", ":", " ", "c", "a", "n", "n", "o", "t", " ",
        "u", "n", "m", "a", "r", "s", "h", "a", "l", " ", "n", "u", "m",
        "b", "e", "r", " " >>,
   intoFloat64 |->  \*  into Go value of type float64
     << " ", "i", "n", "t", "o", " ", "G", "o", " ", "v", "a", "l", "u",
        "e", " ", "o", "f", " ", "t", "y", "p", "e", " ", "f", "l", "o",
        "a", "t", "6", "4" >>,
   true |->  \* true
     << "t", "r", "u", "e" >>,
   false |->  \* false
     << "f", "a", "l", "s", "e" >>,
   null |->  \* null
     << "n", "u", "l", "l" >>]

IsSpace(c) == c \in {" ", "\t", "\r", "\n"}

\* quoteChar: the offending byte as the message shows it.
QuoteChar(c) ==
  IF c = "'" THEN << "'", "\\", "'", "'" >>
  ELSE IF c = "\"" THEN << "'", "\"", "'" >>
  ELSE << "'" >> \o QuoteFrom(EncodeRune(ByteOf(c)), 1) \o << "'" >>

\* What a step answers when there is no error.
ScanEnd(code, step, stack) ==
  [code |-> code, step |-> step, stack |-> stack, msg |-> << >>]

Continue(step, stack) == ScanEnd("continue", step, stack)

\* scanner.error
ScanError(c, context) ==
  [code |-> "error", step |-> "stateError", stack |-> << >>,
   msg |-> JSONText.invalidCharacter \o QuoteChar(c) \o << " " >> \o context]

SetTop(stack, state) == [stack EXCEPT ![Len(stack)] = state]

\* The deepest nesting of arrays and objects the scanner accepts.
maxNestingDepth == 10000

\* scanner.step(c) in the given state.
ScanStep(step, stack, c) ==
  LET \* popParseState, after the closing bracket of an object or an array.
      popParseState(parseState) ==
        ScanEnd("endComposite",
                IF Len(parseState) = 1 THEN "stateEndTop" ELSE "stateEndValue",
                SubSeq(parseState, 1, Len(parseState) - 1))
      stateEndValue(parseState, b) ==
        IF parseState = << >> THEN ScanEnd("end", "stateEndTop", parseState)
        ELSE IF IsSpace(b) THEN Continue("stateEndValue", parseState)
        ELSE IF parseState[Len(parseState)] = "parseObjectKey"
        THEN IF b = ":"
             THEN Continue("stateBeginValue", SetTop(parseState, "parseObjectValue"))
             ELSE ScanError(b, JSONText.afterKey)
        ELSE IF parseState[Len(parseState)] = "parseObjectValue"
        THEN IF b = ","
             THEN Continue("stateBeginString", SetTop(parseState, "parseObjectKey"))
             ELSE IF b = "}" THEN popParseState(parseState)
             ELSE ScanError(b, JSONText.afterPair)
        ELSE IF b = "," THEN Continue("stateBeginValue", parseState)
        ELSE IF b = "]" THEN popParseState(parseState)
        ELSE ScanError(b, JSONText.afterElement)
      \* pushParseState, after the opening bracket c of an object or an array.
      pushParseState(parseState, b, newParseState, next) ==
        IF Len(parseState) + 1 <= maxNestingDepth
        THEN Continue(next, Append(parseState, newParseState))
        ELSE ScanError(b, JSONText.maxDepth)
      stateBeginValue(parseState, b) ==
        IF IsSpace(b) THEN Continue("stateBeginValue", parseState)
        ELSE IF b = "{"
        THEN pushParseState(parseState, b, "parseObjectKey", "stateBeginStringOrEmpty")
        ELSE IF b = "["
        THEN pushParseState(parseState, b, "parseArrayValue", "stateBeginValueOrEmpty")
        ELSE IF b = "\"" THEN Continue("stateInString", parseState)
        ELSE IF b = "-" THEN Continue("stateNeg", parseState)
        ELSE IF b = "0" THEN Continue("state0", parseState)
        ELSE IF b = "t" THEN Continue("stateT", parseState)
        ELSE IF b = "f" THEN Continue("stateF", parseState)
        ELSE IF b = "n" THEN Continue("stateN", parseState)
        ELSE IF IsDigit(b) THEN Continue("state1", parseState)
        ELSE ScanError(b, JSONText.beginValue)
      stateBeginValueOrEmpty(parseState, b) ==
        IF IsSpace(b) THEN Continue("stateBeginValueOrEmpty", parseState)
        ELSE IF b = "]" THEN stateEndValue(parseState, b)
        ELSE stateBeginValue(parseState, b)
      stateBeginString(parseState, b) ==
        IF IsSpace(b) THEN Continue("stateBeginString", parseState)
        ELSE IF b = "\"" THEN Continue("stateInString", parseState)
        ELSE ScanError(b, JSONText.beginString)
      stateBeginStringOrEmpty(parseState, b) ==
        IF IsSpace(b) THEN Continue("stateBeginStringOrEmpty", parseState)
        ELSE IF b = "}" THEN stateEndValue(SetTop(parseState, "parseObjectValue"), b)
        ELSE stateBeginString(parseState, b)
      stateInString(parseState, b) ==
        IF b = "\"" THEN Continue("stateEndValue", parseState)
        ELSE IF b = "\\" THEN Continue("stateInStringEsc", parseState)
        ELSE IF ByteOf(b) < 32 THEN ScanError(b, JSONText.inString)
        ELSE Continue("stateInString", parseState)
      stateInStringEsc(parseState, b) ==
        IF b \in {"b", "f", "n", "r", "t", "\\", "/", "\""}
        THEN Continue("stateInString", parseState)
        ELSE IF b = "u" THEN Continue("stateInStringEscU", parseState)
        ELSE ScanError(b, JSONText.inEscape)
      \* stateInStringEscU, stateInStringEscU1, stateInStringEscU12 and
      \* stateInStringEscU123: the four hexadecimal digits after \u.
      stateInStringEscU(parseState, b, next) ==
        IF IsHex(b) THEN Continue(next, parseState) ELSE ScanError(b, JSONText.inHexEscape)
      stateNeg(parseState, b) ==
        IF b = "0" THEN Continue("state0", parseState)
        ELSE IF IsDigit(b) THEN Continue("state1", parseState)
        ELSE ScanError(b, JSONText.inNumber)
      state0(parseState, b) ==
        IF b = "." THEN Continue("stateDot", parseState)
        ELSE IF b \in {"e", "E"} THEN Continue("stateE", parseState)
        ELSE stateEndValue(parseState, b)
      state1(parseState, b) ==
        IF IsDigit(b) THEN Continue("state1", parseState) ELSE state0(parseState, b)
      stateDot(parseState, b) ==
        IF IsDigit(b) THEN Continue("stateDot0", parseState)
        ELSE ScanError(b, JSONText.afterPoint)
      stateDot0(parseState, b) ==
        IF IsDigit(b) THEN Continue("stateDot0", parseState)
        ELSE IF b \in {"e", "E"} THEN Continue("stateE", parseState)
        ELSE stateEndValue(parseState, b)
      stateESign(parseState, b) ==
        IF IsDigit(b) THEN Continue("stateE0", parseState)
        ELSE ScanError(b, JSONText.inExponent)
      stateE(parseState, b) ==
        IF b \in {"+", "-"} THEN Continue("stateESign", parseState)
        ELSE stateESign(parseState, b)
      stateE0(parseState, b) ==
        IF IsDigit(b) THEN Continue("stateE0", parseState)
        ELSE stateEndValue(parseState, b)
      \* The states inside true, false and null: the literal, the position of the
      \* byte the state expects, and the state that follows.
      LiteralStates ==
        {[step |-> "stateT", lit |-> JSONText.true, at |-> 2, next |-> "stateTr"],
         [step |-> "stateTr", lit |-> JSONText.true, at |-> 3, next |-> "stateTru"],
         [step |-> "stateTru", lit |-> JSONText.true, at |-> 4, next |-> "stateEndValue"],
         [step |-> "stateF", lit |-> JSONText.false, at |-> 2, next |-> "stateFa"],
         [step |-> "stateFa", lit |-> JSONText.false, at |-> 3, next |-> "stateFal"],
         [step |-> "stateFal", lit |-> JSONText.false, at |-> 4, next |-> "stateFals"],
         [step |-> "stateFals", lit |-> JSONText.false, at |-> 5,
          next |-> "stateEndValue"],
         [step |-> "stateN", lit |-> JSONText.null, at |-> 2, next |-> "stateNu"],
         [step |-> "stateNu", lit |-> JSONText.null, at |-> 3, next |-> "stateNul"],
         [step |-> "stateNul", lit |-> JSONText.null, at |-> 4,
          next |-> "stateEndValue"]}
      stateLiteral(e, parseState, b) ==
        IF b = e.lit[e.at] THEN Continue(e.next, parseState)
        ELSE ScanError(b, JSONText.inLiteral \o e.lit \o JSONText.expecting
                            \o << "'", e.lit[e.at], "'", ")" >>)
  IN
  IF step = "stateBeginValue" THEN stateBeginValue(stack, c)
  ELSE IF step = "stateBeginValueOrEmpty"
  THEN stateBeginValueOrEmpty(stack, c)
  ELSE IF step = "stateBeginString" THEN stateBeginString(stack, c)
  ELSE IF step = "stateBeginStringOrEmpty"
  THEN stateBeginStringOrEmpty(stack, c)
  ELSE IF step = "stateEndValue" THEN stateEndValue(stack, c)
  ELSE IF step = "stateInString" THEN stateInString(stack, c)
  ELSE IF step = "stateInStringEsc" THEN stateInStringEsc(stack, c)
  ELSE IF step = "stateInStringEscU"
  THEN stateInStringEscU(stack, c, "stateInStringEscU1")
  ELSE IF step = "stateInStringEscU1"
  THEN stateInStringEscU(stack, c, "stateInStringEscU12")
  ELSE IF step = "stateInStringEscU12"
  THEN stateInStringEscU(stack, c, "stateInStringEscU123")
  ELSE IF step = "stateInStringEscU123"
  THEN stateInStringEscU(stack, c, "stateInString")
  ELSE IF step = "stateNeg" THEN stateNeg(stack, c)
  ELSE IF step = "state0" THEN state0(stack, c)
  ELSE IF step = "state1" THEN state1(stack, c)
  ELSE IF step = "stateDot" THEN stateDot(stack, c)
  ELSE IF step = "stateDot0" THEN stateDot0(stack, c)
  ELSE IF step = "stateE" THEN stateE(stack, c)
  ELSE IF step = "stateESign" THEN stateESign(stack, c)
  ELSE IF step = "stateE0" THEN stateE0(stack, c)
  ELSE stateLiteral(CHOOSE e \in LiteralStates : e.step = step, stack, c)

----------------------------------------------------------------------------
(* Go errors.  An error is the chain errors.Unwrap walks, outermost first: *)
(* a sequence of [type, text], text being what Error() prints.  nil is the *)
(* empty chain.                                                            *)

Nil == << >>

NewError(type, text) == << [type |-> type, text |-> text] >>

ErrorText(err) == err[1].text

\* fmt.Errorf(prefix + "%w", err): a new outer error whose text is the
\* prefix followed by the wrapped error's text.
Errorf(prefix, err) ==
  << [type |-> "*fmt.wrapError", text |-> prefix \o ErrorText(err)] >> \o err

\* errors.As(err, &target) for a target of the given type.
ErrorsAs(err, type) == \E i \in 1..Len(err) : err[i].type = type

----------------------------------------------------------------------------
(* encoding/json, Decoder.readValue of stream.go: the bytes the reader     *)
(* delivers are fed to the scanner one after the other until it reports    *)
(* the end of the first value.  What follows the value is left unread.     *)
(* When the reader ends with io.EOF the scanner is fed one space: a        *)
(* top-level number or literal ends there, and anything else unfinished is *)
(* io.ErrUnexpectedEOF, or io.EOF when the reader delivered nothing but    *)
(* white space.  When the reader ends with another error, that error is    *)
(* returned unless the value has ended in the bytes delivered before it.   *)

\* readValue while it reads (the scanner's step function and its stack)
\* and once it is done (the error, and the number of bytes of the value).
Read(done, err, n, step, stack) ==
  [done |-> done, err |-> err, n |-> n, step |-> step, stack |-> stack]

\* What the scanner's answer r to the byte at position i means.
readValueStep(i, r) ==
  IF r.code = "end" THEN Read(TRUE, Nil, i - 1, "", << >>)
  ELSE IF r.code = "endComposite" /\ r.stack = << >>
  THEN Read(TRUE, Nil, i, "", << >>)
  ELSE IF r.code = "error"
  THEN Read(TRUE, NewError("*json.SyntaxError", r.msg), 0, "", << >>)
  ELSE Read(FALSE, Nil, 0, r.step, r.stack)

\* The bytes at the positions i to j are fed to the scanner, from the
\* state st on; they are left unread when the value has ended before them.
\* The bytes are taken by halves, which yields what feeding them one after
\* the other yields.
RECURSIVE readBytes(_, _, _, _)
readBytes(s, i, j, st) ==
  IF st.done \/ i > j THEN st
  ELSE IF i = j THEN readValueStep(i, ScanStep(st.step, st.stack, s[i]))
  ELSE readBytes(s, ((i + j) \div 2) + 1, j,
                 readBytes(s, i, (i + j) \div 2, st))

\* readValue on a fresh decoder; st is the state after the last byte the
\* reader delivered and readErr the error the reader ended with (Nil for
\* io.EOF).
readValue(s, st, readErr) ==
  LET \* The end of the body, r being the scanner's answer to the space.
      readValueEOF(text, r) ==
        IF r.code = "end" THEN Read(TRUE, Nil, Len(text), "", << >>)
        ELSE IF \E i \in 1..Len(text) : ~IsSpace(text[i])
        THEN Read(TRUE, NewError("io.ErrUnexpectedEOF", JSONText.unexpectedEOF), 0,
                  "", << >>)
        ELSE Read(TRUE, NewError("io.EOF", JSONText.eof), 0, "", << >>)
  IN
  IF st.done THEN st
  ELSE IF readErr # Nil THEN Read(TRUE, readErr, 0, "", << >>)
  ELSE readValueEOF(s, ScanStep(st.step, st.stack, " "))

----------------------------------------------------------------------------
(* encoding/json, decode.go: the value the scanned bytes denote, built as  *)
(* valueInterface, arrayInterface, objectInterface and literalInterface    *)
(* build it.  The bytes are those of the value readValue has delimited,     *)
(* so their syntax is valid.                                               *)
(* Each builder takes the text, a position and the number literal of the   *)
(* first saved error so far (a sequence of none or one), and returns the   *)
(* value, the position after it and the saved error.                       *)

RECURSIVE SkipSpace(_, _)
SkipSpace(s, i) ==
  IF i <= Len(s) /\ IsSpace(s[i]) THEN SkipSpace(s, i + 1) ELSE i

Built(v, i, bad) == [v |-> v, i |-> i, bad |-> bad]

\* getu4: the value of \uXXXX at position i, or -1.
getu4(s, i) ==
  IF /\ i + 5 <= Len(s)
     /\ s[i] = "\\"
     /\ s[i + 1] = "u"
     /\ \A j \in 2..5 : IsHex(s[i + j])
  THEN HexVal(s[i + 2]) * 4096 + HexVal(s[i + 3]) * 256
         + HexVal(s[i + 4]) * 16 + HexVal(s[i + 5])
  ELSE -1

\* unquote: the text of a string literal from the position after its
\* opening quote, and the position after its closing quote.  \uXXXX is
\* written in UTF-8, two escapes that form a surrogate pair as one rune, a
\* surrogate half on its own as U+FFFD; bytes that are no valid UTF-8
\* become U+FFFD, one for each byte.
RECURSIVE unquote(_, _, _)
unquoteU(s, i, acc, rr, rr1) ==
  IF rr >= 55296 /\ rr <= 57343
  THEN IF rr < 56320 /\ rr1 >= 56320 /\ rr1 <= 57343
       THEN unquote(s, i + 12,
                    acc \o EncodeRune((rr - 55296) * 1024 + (rr1 - 56320)
                                        + 65536))
       ELSE unquote(s, i + 6, acc \o ReplacementChar)
  ELSE unquote(s, i + 6, acc \o EncodeRune(rr))

unquoteRune(s, i, acc, width) ==
  IF width = 0 THEN unquote(s, i + 1, acc \o ReplacementChar)
  ELSE unquote(s, i + width, acc \o SubSeq(s, i, i + width - 1))

unquote(s, i, acc) ==
  IF s[i] = "\"" THEN [v |-> acc, i |-> i + 1]
  ELSE IF s[i] = "\\" /\ s[i + 1] = "u"
  THEN unquoteU(s, i, acc, getu4(s, i), getu4(s, i + 6))
  ELSE IF s[i] = "\\"
  THEN unquote(s, i + 2,
               Append(acc, IF s[i + 1] = "b" THEN "x08"
                           ELSE IF s[i + 1] = "f" THEN "x0c"
                           ELSE IF s[i + 1] = "n" THEN "\n"
                           ELSE IF s[i + 1] = "r" THEN "\r"
                           ELSE IF s[i + 1] = "t" THEN "\t"
                           ELSE s[i + 1]))
  ELSE IF ByteOf(s[i]) < 128 THEN unquote(s, i + 1, Append(acc, s[i]))
  ELSE unquoteRune(s, i, acc, Utf8Width(s, i, ByteOf(s[i])))

\* The value of an exponent's digits; strconv stops counting at 10000,
\* which is beyond every float64.
RECURSIVE ExponentDigits(_, _)
ExponentDigits(t, acc) ==
  IF t = << >> THEN acc
  ELSE ExponentDigits(Tail(t),
                      IF acc < 10000 THEN acc * 10 + DigitVal(Head(t))
                      ELSE acc)

----------------------------------------------------------------------------
(* strconv, decimal.go: a decimal number of any length, the digits d       *)
(* (numbers from 0 to 9, the first and the last one not 0) and the         *)
(* position dp of the decimal point, the value being 0.d1d2...dn times ten *)
(* to the power dp.  Zero has no digits.  The digits are kept in full:     *)
(* strconv keeps 800 of them and rounds as if it had kept them all.        *)

Decimal(d, dp) == [d |-> d, dp |-> dp]

\* The decimal digits of a natural number below 10^9, none for 0.
NatDigits(n) ==
  LET len == CHOOSE l \in 0..9 : n < 10 ^ l /\ (l = 0 \/ n >= 10 ^ (l - 1))
  IN [i \in 1..len |-> (n \div (10 ^ (len - i))) % 10]

\* trim: the zeros at the end are dropped.
trim(a) ==
  IF \A j \in 1..Len(a.d) : a.d[j] = 0 THEN Decimal(<< >>, 0)
  ELSE Decimal(Take(a.d, Len(a.d) - (CHOOSE z \in 0..(Len(a.d) - 1) :
                                       /\ a.d[Len(a.d) - z] # 0
                                       /\ \A j \in (Len(a.d) - z + 1)..Len(a.d) :
                                            a.d[j] = 0)),
               a.dp)

\* The digits at the positions i to j times f, from the right to the left:
\* m holds the digits of the product so far and the carry to the left.
\* The digits are taken by halves, the right half first (which the test of
\* the carry sees to).
RECURSIVE mulDigits(_, _, _, _, _)
mulDigits(d, i, j, f, m) ==
  IF m.carry < 0 \/ i > j THEN m
  ELSE IF i = j
  THEN [d |-> << (d[i] * f + m.carry) % 10 >> \o m.d,
        carry |-> (d[i] * f + m.carry) \div 10]
  ELSE mulDigits(d, i, (i + j) \div 2, f,
                 mulDigits(d, ((i + j) \div 2) + 1, j, f, m))

\* The digits at the positions i to j divided by q, from the left to the
\* right: m holds the digits of the quotient so far and the remainder.
RECURSIVE divDigits(_, _, _, _, _)
divDigits(d, i, j, q, m) ==
  IF m.rem < 0 \/ i > j THEN m
  ELSE IF i = j
  THEN [d |-> Append(m.d, (m.rem * 10 + d[i]) \div q),
        rem |-> (m.rem * 10 + d[i]) % q]
  ELSE divDigits(d, ((i + j) \div 2) + 1, j, q,
                 divDigits(d, i, (i + j) \div 2, q, m))

\* leftShift: a times 2^k, for k up to maxShift.
leftShift(a, k) ==
  LET put(m) ==
        trim(Decimal(NatDigits(m.carry) \o m.d, a.dp + Len(NatDigits(m.carry))))
  IN put(mulDigits(a.d, 1, Len(a.d), 2 ^ k, [d |-> << >>, carry |-> 0]))

\* rightShift: a divided by 2^k, for k up to maxShift.  The division goes
\* on for k digits after the last one of a, where it ends without
\* remainder; the quotient starts with as many zeros as the decimal point
\* moves to the left.
rightShift(a, k) ==
  LET put(q) ==
        LET z == (CHOOSE n \in 1..Len(q) :
                    q[n] # 0 /\ \A j \in 1..(n - 1) : q[j] = 0) - 1
        IN trim(Decimal(Drop(q, z), a.dp - z))
      all(m) == put(m.d)
  IN all(divDigits(a.d \o [i \in 1..k |-> 0], 1, Len(a.d) + k, 2 ^ k,
                   [d |-> << >>, rem |-> 0]))

\* The most bits one leftShift or rightShift moves.  (strconv moves up to
\* 60 on a 64-bit machine; the product and the quotient are the same.)
maxShift == 27

\* decimal.Shift: a times 2^k, k negative for a division.  A distance
\* beyond maxShift is covered in two halves.
RECURSIVE Shift(_, _)
Shift(a, k) ==
  IF a.d = << >> \/ k = 0 THEN a
  ELSE IF k > maxShift \/ k < 0 - maxShift
  THEN Shift(Shift(a, k \div 2), k - (k \div 2))
  ELSE IF k > 0 THEN leftShift(a, k)
  ELSE rightShift(a, 0 - k)

\* shouldRoundUp: whether a rounded to its first nd digits is rounded up;
\* a number exactly halfway is rounded to the even digit.
shouldRoundUp(a, nd) ==
  IF nd < 0 \/ nd >= Len(a.d) THEN FALSE
  ELSE IF a.d[nd + 1] = 5 /\ nd + 1 = Len(a.d)
  THEN nd > 0 /\ a.d[nd] % 2 # 0
  ELSE a.d[nd + 1] >= 5

\* decimal.RoundDown and decimal.RoundUp to the first nd digits.
RoundDown(a, nd) ==
  IF nd < 0 \/ nd >= Len(a.d) THEN a ELSE trim(Decimal(Take(a.d, nd), a.dp))

RoundUp(a, nd) ==
  IF nd < 0 \/ nd >= Len(a.d) THEN a
  ELSE IF \E i \in 1..nd : a.d[i] < 9
  THEN LET n == CHOOSE i \in 1..nd :
                  a.d[i] < 9 /\ \A j \in (i + 1)..nd : a.d[j] = 9
       IN Decimal(Append(Take(a.d, n - 1), a.d[n] + 1), a.dp)
  ELSE Decimal(<< 1 >>, a.dp + 1)

\* decimal.Round
Round(a, nd) ==
  IF shouldRoundUp(a, nd) THEN RoundUp(a, nd) ELSE RoundDown(a, nd)

\* A natural number as its decimal digits (a number of 53 bits and more
\* does not fit the model checker's integers): the number plus 1, the
\* number less 1 when it is not 0, and the number times a small factor.
NatInc(x) ==
  IF \A i \in 1..Len(x) : x[i] = 9 THEN << 1 >> \o [i \in 1..Len(x) |-> 0]
  ELSE LET n == CHOOSE i \in 1..Len(x) :
                  x[i] < 9 /\ \A j \in (i + 1)..Len(x) : x[j] = 9
       IN [i \in 1..Len(x) |->
             IF i < n THEN x[i] ELSE IF i = n THEN x[i] + 1 ELSE 0]

NatDec(x) ==
  LET n == CHOOSE i \in 1..Len(x) :
             x[i] > 0 /\ \A j \in (i + 1)..Len(x) : x[j] = 0
      y == [i \in 1..Len(x) |->
              IF i < n THEN x[i] ELSE IF i = n THEN x[i] - 1 ELSE 9]
  IN IF y[1] = 0 THEN Tail(y) ELSE y

NatMul(x, f) ==
  LET put(m) == NatDigits(m.carry) \o m.d
  IN put(mulDigits(x, 1, Len(x), f, [d |-> << >>, carry |-> 0]))

\* decimal.Assign: the decimal of a natural number.
Assign(x) == trim(Decimal(x, Len(x)))

\* decimal.RoundedInteger: a rounded to a natural number.
RoundedInteger(a) ==
  IF shouldRoundUp(a, a.dp)
  THEN NatInc([i \in 1..a.dp |-> IF i <= Len(a.d) THEN a.d[i] ELSE 0])
  ELSE [i \in 1..a.dp |-> IF i <= Len(a.d) THEN a.d[i] ELSE 0]

----------------------------------------------------------------------------
(* strconv, atof.go and ftoa.go, for float64: 52 bits of mantissa after    *)
(* the implicit one, exponents from -1022 to 1023.  A float64 other than   *)
(* zero is the natural number mant, below 2^53, times 2^(exp - 52).        *)

\* 2^52 and 2^53.
Pow2_52 == << 4, 5, 0, 3, 5, 9, 9, 6, 2, 7, 3, 7, 0, 4, 9, 6 >>
\* The bits to shift by for a decimal point at 0 to 8.
powtab == << 1, 3, 6, 9, 13, 16, 19, 23, 26 >>

\* decimal.floatBits, one turn of the loops that scale a by powers of two
\* until it lies in [0.5, 1): a is divided while its decimal point is
\* above 0 and multiplied while it is below 0.5, which a division never
\* undoes.
floatScaleStep(s) ==
  IF s.a.dp > 0
  THEN IF s.a.dp >= Len(powtab)
       THEN [s EXCEPT !.a = Shift(@, -27), !.exp = @ + 27]
       ELSE [s EXCEPT !.a = Shift(@, 0 - powtab[s.a.dp + 1]),
                      !.exp = @ + powtab[s.a.dp + 1]]
  ELSE IF s.a.dp < 0 \/ s.a.d[1] < 5
  THEN IF 0 - s.a.dp >= Len(powtab)
       THEN [s EXCEPT !.a = Shift(@, 27), !.exp = @ - 27]
       ELSE [s EXCEPT !.a = Shift(@, powtab[1 - s.a.dp]),
                      !.exp = @ - powtab[1 - s.a.dp]]
  ELSE [s EXCEPT !.done = TRUE]

\* The loops, in up to 2^n turns; a decimal point between -330 and 310
\* takes fewer than 64.
RECURSIVE floatScale(_, _)
floatScale(s, n) ==
  IF s.done THEN s
  ELSE IF n = 0 THEN floatScaleStep(s)
  ELSE floatScale(floatScale(s, n - 1), n - 1)

\* decimal.floatBits: the float64 nearest to a, or overflow.
floatBits(a) ==
  LET Pow2_53 == << 9, 0, 0, 7, 1, 9, 9, 2, 5, 4, 7, 4, 0, 9, 9, 2 >>
  IN
  LET Float(overflow, mant, exp) ==
        [overflow |-> overflow, mant |-> mant, exp |-> exp]
      \* The mantissa rounded from 53 bits; rounding may have added a bit.
      rounded(mant, exp) ==
        IF mant = Pow2_53
        THEN Float(exp + 1 >= 1024, Pow2_52, exp + 1)
        ELSE Float(FALSE, mant, exp)
      \* The exponent of [1, 2), lifted to the least one there is.
      bits(s, exp) ==
        IF exp < -1022
        THEN rounded(RoundedInteger(Shift(Shift(s.a, exp + 1022), 53)), -1022)
        ELSE IF exp >= 1024 THEN Float(TRUE, << >>, 0)
        ELSE rounded(RoundedInteger(Shift(s.a, 53)), exp)
      scaled(s) == bits(s, s.exp - 1)
  IN IF a.d = << >> THEN Float(FALSE, << >>, 0)
     ELSE IF a.dp > 310 THEN Float(TRUE, << >>, 0)
     ELSE IF a.dp < -330 THEN Float(FALSE, << >>, 0)
     ELSE scaled(floatScale([a |-> a, exp |-> 0, done |-> FALSE], 6))

\* roundShortest, one turn of the loop over the digits: w holds the index
\* ui, upperdelta and, at the end, the rounded decimal.
shortestStep(d, upper, lower, inclusive, w) ==
  LET mi == w.ui - upper.dp + d.dp
      li == w.ui - upper.dp + lower.dp
      l == IF li >= 0 /\ li < Len(lower.d) THEN lower.d[li + 1] ELSE 0
      m == IF mi >= 0 THEN d.d[mi + 1] ELSE 0
      u == IF w.ui < Len(upper.d) THEN upper.d[w.ui + 1] ELSE 0
      okdown == l # m \/ (inclusive /\ li + 1 = Len(lower.d))
      delta == IF w.upperdelta = 0 /\ m + 1 < u THEN 2
               ELSE IF w.upperdelta = 0 /\ m # u THEN 1
               ELSE IF w.upperdelta = 1 /\ (m # 9 \/ u # 0) THEN 2
               ELSE w.upperdelta
      okup == delta > 0 /\ (inclusive \/ delta > 1 \/ w.ui + 1 < Len(upper.d))
      End(r) == [done |-> TRUE, ui |-> w.ui, upperdelta |-> delta, d |-> r]
  IN IF mi >= Len(d.d) THEN End(d)
     ELSE IF okdown /\ okup THEN End(Round(d, mi + 1))
     ELSE IF okdown THEN End(RoundDown(d, mi + 1))
     ELSE IF okup THEN End(RoundUp(d, mi + 1))
     ELSE [done |-> FALSE, ui |-> w.ui + 1, upperdelta |-> delta, d |-> d]

\* The loop, in up to 2^n turns; d has fewer than 32 digits to walk, for
\* 17 digits tell every float64 from its neighbours.
RECURSIVE shortestWalk(_, _, _, _, _, _)
shortestWalk(d, upper, lower, inclusive, w, n) ==
  IF w.done THEN w
  ELSE IF n = 0 THEN shortestStep(d, upper, lower, inclusive, w)
  ELSE shortestWalk(d, upper, lower, inclusive,
                    shortestWalk(d, upper, lower, inclusive, w, n - 1), n - 1)

\* roundShortest: d, the decimal of mant times 2^(exp - 52), rounded to the
\* fewest digits that still lie nearer to this float64 than to the next
\* one above and the next one below.  upper and lower are halfway to these.
roundShortest(d, mant, exp) ==
  IF exp > -1022 /\ 332 * (d.dp - Len(d.d)) >= 100 * (exp - 52) THEN d
  ELSE shortestWalk(
         d,
         Shift(Assign(NatInc(NatMul(mant, 2))), exp - 53),
         IF mant # Pow2_52 \/ exp = -1022
         THEN Shift(Assign(NatDec(NatMul(mant, 2))), exp - 53)
         ELSE Shift(Assign(NatDec(NatMul(mant, 4))), exp - 54),
         mant[Len(mant)] % 2 = 0,
         [done |-> FALSE, ui |-> 0, upperdelta |-> 0, d |-> d], 5).d

\* strconv.FormatFloat(f, fmt, -1, 64): the digits of a float64 other than
\* zero in the shortest form that denotes it.
FormatShortest(mant, exp) ==
  roundShortest(Shift(Assign(mant), exp - 52), mant, exp)

\* strconv.ParseFloat(lit, 64) on the digits of a literal and the position
\* of its decimal point: the nearest float64, halfway cases to the even
\* mantissa.  A number that rounds beyond the range of float64 is an error,
\* one that rounds to zero is zero.
ParseFloat(neg, digits, dp) ==
  LET float64(d) ==
        JNum(neg, [i \in 1..Len(d.d) |-> HexChars[d.d[i] + 1]], d.dp)
      value(f) ==
        IF f.overflow THEN [ok |-> FALSE, v |-> JNull]
        ELSE IF f.mant = << >> THEN [ok |-> TRUE, v |-> JNum(neg, << >>, 0)]
        ELSE [ok |-> TRUE, v |-> float64(FormatShortest(f.mant, f.exp))]
  IN value(floatBits(Decimal([i \in 1..Len(digits) |-> DigitVal(digits[i])],
                             dp)))

\* decodeState.convertNumber: the float64 of a number literal.  The literal
\* without its sign is cut into the digits before the point, the digits
\* after it and the exponent; the digits are kept without the zeros they
\* start and end with, and the decimal point is counted from the first of
\* them.
convertNumber(lit) ==
  LET \* The number of zeros a digit text starts with, and ends with.
      LeadingZeros(t) ==
        CHOOSE n \in 0..Len(t) :
          /\ \A j \in 1..n : t[j] = "0"
          /\ n = Len(t) \/ t[n + 1] # "0"
      TrailingZeros(t) ==
        CHOOSE n \in 0..Len(t) :
          /\ \A j \in (Len(t) - n + 1)..Len(t) : t[j] = "0"
          /\ n = Len(t) \/ t[Len(t) - n] # "0"
      \* The exponent written after e or E.
      Exponent(t) ==
        IF t[1] = "-" THEN 0 - ExponentDigits(Tail(t), 0)
        ELSE IF t[1] = "+" THEN ExponentDigits(Tail(t), 0)
        ELSE ExponentDigits(t, 0)
  IN
  LET neg == lit[1] = "-"
      abs == IF neg THEN Tail(lit) ELSE lit
      e == IF IndexOf(abs, "e") # 0 THEN IndexOf(abs, "e")
           ELSE IndexOf(abs, "E")
      mant == IF e = 0 THEN abs ELSE Take(abs, e - 1)
      exp == IF e = 0 THEN 0 ELSE Exponent(Drop(abs, e))
      dot == IndexOf(mant, ".")
      int == IF dot = 0 THEN mant ELSE Take(mant, dot - 1)
      all == IF dot = 0 THEN mant ELSE int \o Drop(mant, dot)
      lead == LeadingZeros(all)
  IN ParseFloat(neg, SubSeq(all, lead + 1, Len(all) - TrailingZeros(all)),
                IF lead = Len(all) THEN 0 ELSE Len(int) + exp - lead)

literalInterface(s, i, bad) ==
  LET \* The position after the number literal that starts at position i.
      NumberEnd(text, at) ==
        CHOOSE j \in at..(Len(text) + 1) :
          /\ \A k \in at..(j - 1) : IsDigit(text[k]) \/ text[k] \in {"-", "+", ".", "e", "E"}
          /\ j = Len(text) + 1 \/ ~(IsDigit(text[j]) \/ text[j] \in {"-", "+", ".", "e", "E"})
      \* A number literal that does not fit is saved as the error of the
      \* decoding, the first one only, and its value is nil.
      NumberLiteral(n, lit, j, wrong) ==
        IF n.ok THEN Built(n.v, j, wrong)
        ELSE Built(JNull, j, IF wrong = << >> THEN << lit >> ELSE wrong)
  IN
  IF s[i] = "n" THEN Built(JNull, i + 4, bad)
  ELSE IF s[i] = "t" THEN Built(JBool(TRUE), i + 4, bad)
  ELSE IF s[i] = "f" THEN Built(JBool(FALSE), i + 5, bad)
  ELSE IF s[i] = "\""
  THEN LET q == unquote(s, i + 1, << >>) IN Built(JStr(q.v), q.i, bad)
  ELSE LET lit == SubSeq(s, i, NumberEnd(s, i) - 1)
       IN NumberLiteral(convertNumber(lit), lit, i + Len(lit), bad)

RECURSIVE valueInterface(_, _, _)
RECURSIVE ArrayElement(_, _, _, _)
RECURSIVE ObjectMember(_, _, _, _)

\* The element r is appended, and what follows it is a closing bracket or
\* a comma.
ArrayAppend(s, acc, r) ==
  IF s[SkipSpace(s, r.i)] = "]"
  THEN Built(JArr(Append(acc, r.v)), SkipSpace(s, r.i) + 1, r.bad)
  ELSE ArrayElement(s, SkipSpace(s, r.i) + 1, Append(acc, r.v), r.bad)

ArrayElement(s, i, acc, bad) == ArrayAppend(s, acc, valueInterface(s, i, bad))

\* The array whose opening bracket is before position i.
arrayInterface(s, i, bad) ==
  IF s[SkipSpace(s, i)] = "]" THEN Built(JArr(<< >>), SkipSpace(s, i) + 1, bad)
  ELSE ArrayElement(s, SkipSpace(s, i), << >>, bad)

\* The value r is put under its key, and what follows it is a closing
\* brace or a comma.
MemberPut(s, m, key, r) ==
  LET \* m[k] = v on a Go map: a later duplicate key overwrites an earlier one.
      MapPut(members, k, v) ==
        [x \in (DOMAIN members) \cup {k} |-> IF x = k THEN v ELSE members[x]]
  IN
  IF s[SkipSpace(s, r.i)] = "}"
  THEN Built(JObj(MapPut(m, key, r.v)), SkipSpace(s, r.i) + 1, r.bad)
  ELSE ObjectMember(s, SkipSpace(s, SkipSpace(s, r.i) + 1),
                    MapPut(m, key, r.v), r.bad)

MemberValue(s, m, bad, k) ==
  MemberPut(s, m, k.v, valueInterface(s, SkipSpace(s, k.i) + 1, bad))

\* The member whose key's opening quote is at position i.
ObjectMember(s, i, m, bad) == MemberValue(s, m, bad, unquote(s, i + 1, << >>))

\* The object whose opening brace is before position i.
objectInterface(s, i, bad) ==
  IF s[SkipSpace(s, i)] = "}"
  THEN Built(JObj(EmptyMap), SkipSpace(s, i) + 1, bad)
  ELSE ObjectMember(s, SkipSpace(s, i), EmptyMap, bad)

valueInterface(s, i, bad) ==
  IF s[SkipSpace(s, i)] = "[" THEN arrayInterface(s, SkipSpace(s, i) + 1, bad)
  ELSE IF s[SkipSpace(s, i)] = "{"
  THEN objectInterface(s, SkipSpace(s, i) + 1, bad)
  ELSE literalInterface(s, SkipSpace(s, i), bad)

\* decodeState.unmarshal: the value, and the saved error if there is one.
unmarshal(r, n) ==
  IF r.bad = << >> THEN [err |-> Nil, v |-> r.v, n |-> n]
  ELSE [err |-> NewError("*json.UnmarshalTypeError",
                         JSONText.cannotUnmarshal \o r.bad[1]
                           \o JSONText.intoFloat64),
        v |-> r.v, n |-> n]

\* The value of the bytes that readValue has delimited, or its error.
DecodeValue(body, read) ==
  IF read.err # Nil THEN [err |-> read.err, v |-> JNull, n |-> 0]
  ELSE unmarshal(valueInterface(Take(body, read.n), 1, << >>), read.n)

\* json.NewDecoder(r).Decode(&result) into an interface{}, for a reader
\* that delivers the bytes of body and then ends with readErr (Nil for
\* io.EOF): the error, the value and the number of bytes read for it.
Decode(body, readErr) ==
  DecodeValue(body,
              readValue(body,
                        readBytes(body, 1, Len(body),
                                  Read(FALSE, Nil, 0, "stateBeginValue",
                                       << >>)),
                        readErr))

----------------------------------------------------------------------------
(* encoding/json, encode.go.  json.Marshal writes a map with its keys      *)
(* sorted, strings quoted and escaped (HTML characters included), numbers  *)
(* as floatEncoder writes them, and no white space.                        *)

\* appendString for the byte b at position i, and what follows it.  An
\* ASCII byte: the quote and the backslash behind a backslash, the control
\* characters by letter or as \u00XX (\b and \f by letter as Go 1.22 and
\* later write them), and < > & as \u00XX.  A byte that starts no valid
\* rune is written as \ufffd; of the valid runes of the given width
\* U+2028 and U+2029 are escaped and every other one is copied.
RECURSIVE appendString(_, _)
EscapeNext(s, i, b, width) ==
  IF b < 128
  THEN (IF s[i] \in {"\"", "\\"} THEN << "\\", s[i] >>
        ELSE IF b = 8 THEN << "\\", "b" >>
        ELSE IF b = 12 THEN << "\\", "f" >>
        ELSE IF b = 10 THEN << "\\", "n" >>
        ELSE IF b = 13 THEN << "\\", "r" >>
        ELSE IF b = 9 THEN << "\\", "t" >>
        ELSE IF b < 32 \/ s[i] \in {"<", ">", "&"}
        THEN << "\\", "u", "0", "0" >> \o Hex2(b)
        ELSE << s[i] >>)
       \o appendString(s, i + 1)
  ELSE IF width = 0
  THEN << "\\", "u", "f", "f", "f", "d" >> \o appendString(s, i + 1)
  ELSE IF /\ width = 3
          /\ b = 226
          /\ s[i + 1] = "x80"
          /\ s[i + 2] \in {"xa8", "xa9"}
  THEN << "\\", "u", "2", "0", "2", IF s[i + 2] = "xa8" THEN "8" ELSE "9" >>
         \o appendString(s, i + 3)
  ELSE SubSeq(s, i, i + width - 1) \o appendString(s, i + width)

\* The escaped text of a string from position i, without the quotes.
appendString(s, i) ==
  IF i > Len(s) THEN << >>
  ELSE EscapeNext(s, i, ByteOf(s[i]), Utf8Width(s, i, ByteOf(s[i])))

stringEncoder(s) == << "\"" >> \o appendString(s, 1) \o << "\"" >>

\* strconv.FormatFloat(f, 'f', -1, 64): the digits before the point (0 when
\* there are none), and the point and the digits after it when there are
\* any.
FormatF(digits, dp) ==
  LET \* A run of n zeros.
      Zeros(n) == [i \in 1..n |-> "0"]
  IN
  (IF dp <= 0 THEN << "0" >>
   ELSE IF dp <= Len(digits) THEN Take(digits, dp)
   ELSE digits \o Zeros(dp - Len(digits)))
  \o (IF Len(digits) <= dp THEN << >>
      ELSE IF dp <= 0 THEN << "." >> \o Zeros(0 - dp) \o digits
      ELSE << "." >> \o Drop(digits, dp))

\* strconv.FormatFloat(f, 'e', -1, 64) after floatEncoder has turned a
\* two-digit exponent that starts with 0 into one digit: the first digit,
\* the point and the other digits when there are any, e, the sign of the
\* exponent and its digits.
FormatE(digits, exp) ==
  << Head(digits) >>
  \o (IF Len(digits) > 1 THEN << "." >> \o Tail(digits) ELSE << >>)
  \o << "e", IF exp < 0 THEN "-" ELSE "+" >>
  \o FormatNat(IF exp < 0 THEN 0 - exp ELSE exp)

\* floatEncoder: the exponent form for a number below 1e-6 or of 1e21 and
\* more, the plain form otherwise.
floatEncoder(n) ==
  (IF n.neg THEN << "-" >> ELSE << >>)
  \o (IF n.digits # << >> /\ (n.dp < -5 \/ n.dp > 21)
      THEN FormatE(n.digits, n.dp - 1)
      ELSE FormatF(n.digits, n.dp))

\* The keys of a map in the order json.Marshal writes them.
RECURSIVE SortKeys(_)
SortKeys(ks) ==
  IF ks = {} THEN << >>
  ELSE LET k == CHOOSE x \in ks : \A y \in ks \ {x} : TextLess(x, y)
       IN << k >> \o SortKeys(ks \ {k})

RECURSIVE Marshal(_)
RECURSIVE MarshalElements(_)
RECURSIVE MarshalMembers(_, _)

MarshalElements(a) ==
  IF a = << >> THEN << >>
  ELSE IF Len(a) = 1 THEN Marshal(a[1])
  ELSE Marshal(a[1]) \o << "," >> \o MarshalElements(Tail(a))

MarshalMembers(m, ks) ==
  IF ks = << >> THEN << >>
  ELSE IF Len(ks) = 1
  THEN stringEncoder(ks[1]) \o << ":" >> \o Marshal(m[ks[1]])
  ELSE stringEncoder(ks[1]) \o << ":" >> \o Marshal(m[ks[1]]) \o << "," >>
         \o MarshalMembers(m, Tail(ks))

Marshal(v) ==
  IF v.t = "nil" THEN JSONText.null
  ELSE IF v.t = "bool" THEN IF v.b THEN JSONText.true ELSE JSONText.false
  ELSE IF v.t = "float64" THEN floatEncoder(v)
  ELSE IF v.t = "string" THEN stringEncoder(v.s)
  ELSE IF v.t = "slice" THEN << "[" >> \o MarshalElements(v.a) \o << "]" >>
  ELSE << "{" >> \o MarshalMembers(v.m, SortKeys(DOMAIN v.m)) \o << "}" >>

----------------------------------------------------------------------------
(* net/url: url.Parse as http.NewRequest and the client's redirects call   *)
(* it, and URL.String as the client's errors and requests show a URL.      *)

\* The texts of net/url's errors.
URLText ==
  [parse |->  \* parse 
     << "p", "a", "r", "s", "e", " " >>,
   controlChar |->  \* net/url: invalid control character in URL
     << "n", "e", "t", "/", "u", "r", "l", ":", " ", "i", "n", "v", "a",
        "l", "i", "d", " ", "c", "o", "n", "t", "r", "o", "l", " ", "c",
        "h", "a", "r", "a", "c", "t", "e", "r", " ", "i", "n", " ", "U",
        "R", "L" >>,
   missingScheme |->  \* missing protocol scheme
     << "m", "i", "s", "s", "i", "n", "g", " ", "p", "r", "o", "t", "o",
        "c", "o", "l", " ", "s", "c", "h", "e", "m", "e" >>,
   colonInSegment |->  \* first path segment in URL cannot contain colon
     << "f", "i", "r", "s", "t", " ", "p", "a", "t", "h", " ", "s", "e",
        "g", "m", "e", "n", "t", " ", "i", "n", " ", "U", "R", "L", " ",
        "c", "a", "n", "n", "o", "t", " ", "c", "o", "n", "t", "a", "i",
        "n", " ", "c", "o", "l", "o", "n" >>,
   missingBracket |->  \* missing ']' in host
     << "m", "i", "s", "s", "i", "n", "g", " ", "'", "]", "'", " ", "i",
        "n", " ", "h", "o", "s", "t" >>,
   invalidPort |->  \* invalid port 
     << "i", "n", "v", "a", "l", "i", "d", " ", "p", "o", "r", "t", " " >>,
   afterHost |->  \*  after host
     << " ", "a", "f", "t", "e", "r", " ", "h", "o", "s", "t" >>,
   invalidUserinfo |->  \* net/url: invalid userinfo
     << "n", "e", "t", "/", "u", "r", "l", ":", " ", "i", "n", "v", "a",
        "l", "i", "d", " ", "u", "s", "e", "r", "i", "n", "f", "o" >>,
   invalidEscape |->  \* invalid URL escape 
     << "i", "n", "v", "a", "l", "i", "d", " ", "U", "R", "L", " ", "e",
        "s", "c", "a", "p", "e", " " >>,
   invalidCharacter |->  \* invalid character 
     << "i", "n", "v", "a", "l", "i", "d", " ", "c", "h", "a", "r", "a",
        "c", "t", "e", "r", " " >>,
   inHostName |->  \*  in host name
     << " ", "i", "n", " ", "h", "o", "s", "t", " ", "n", "a", "m", "e" >>,
   zone |->  \* %25
     << "%", "2", "5" >>,
   stars |->  \* :***@
     << ":", "*", "*", "*", "@" >>]

\* errors.New
ErrorString(text) == NewError("*errors.errorString", text)

\* &url.Error{Op, URL, Err}, whose text is the operation, the quoted URL
\* and the text of the error it wraps.
URLErrorOf(op, url, err) ==
  << [type |-> "*url.Error",
      text |-> op \o Quote(url) \o << ":", " " >> \o ErrorText(err)] >>
    \o err

\* The texts at the positions i to j of a sequence of texts, one after the
\* other (taken by halves).
RECURSIVE Concat(_, _, _)
Concat(parts, i, j) ==
  IF i > j THEN << >>
  ELSE IF i = j THEN parts[i]
  ELSE Concat(parts, i, (i + j) \div 2) \o Concat(parts, ((i + j) \div 2) + 1, j)

\* strings.Index, counted from 1 (0 when sub does not occur).
Index(s, sub) ==
  IF Contains(s, sub)
  THEN CHOOSE i \in 1..(Len(s) + 1) :
         /\ HasPrefix(Drop(s, i - 1), sub)
         /\ \A j \in 1..(i - 1) : ~HasPrefix(Drop(s, j - 1), sub)
  ELSE 0

\* shouldEscape: whether a byte must be escaped to stand in the part of a
\* URL the mode names.
shouldEscape(c, mode) ==
  IF IsLetter(c) \/ IsDigit(c) THEN FALSE
  ELSE IF /\ mode \in {"encodeHost", "encodeZone"}
          /\ c \in {"!", "$", "&", "'", "(", ")", "*", "+", ",", ";", "=",
                    ":", "[", "]", "<", ">", "\""}
  THEN FALSE
  ELSE IF c \in {"-", "_", ".", "~"} THEN FALSE
  ELSE IF /\ c \in {"$", "&", "+", ",", "/", ":", ";", "=", "?", "@"}
          /\ mode \in {"encodePath", "encodeUserPassword", "encodeFragment"}
  THEN IF mode = "encodePath" THEN c = "?"
       ELSE IF mode = "encodeUserPassword" THEN c \in {"@", "/", "?", ":"}
       ELSE FALSE
  ELSE IF mode = "encodeFragment" /\ c \in {"!", "(", ")", "*"} THEN FALSE
  ELSE TRUE

\* unescape(s, mode): the error, or the text with every %XX replaced by
\* the byte it names.  The errors are a % that is not followed by two
\* hexadecimal digits; in a host, a byte that may not stand there and an
\* escape of an ASCII byte other than %25; in a zone, an escape of a byte
\* that may not stand in a host, the space excepted.  The first error in
\* the text is the one returned.
unescape(s, mode) ==
  LET value(i) == HexVal(s[i + 1]) * 16 + HexVal(s[i + 2])
      \* The result when bad is the set of the positions in error: for a
      \* %, url.EscapeError with the escape (what is left of the text when
      \* it ends before the escape does), and for any other byte
      \* url.InvalidHostError with the byte.
      unescaped(bad) ==
        LET first == CHOOSE i \in bad : \A j \in bad : i <= j
            esc == s[first] = "%"
        IN IF bad # {}
           THEN [err |-> NewError(
                           IF esc THEN "url.EscapeError"
                           ELSE "url.InvalidHostError",
                           (IF esc THEN URLText.invalidEscape
                            ELSE URLText.invalidCharacter)
                             \o Quote(SubSeq(s, first,
                                             IF ~esc THEN first
                                             ELSE IF first + 2 > Len(s)
                                             THEN Len(s)
                                             ELSE first + 2))
                             \o (IF esc THEN << >> ELSE URLText.inHostName)),
                 s |-> << >>]
           ELSE IF \A i \in 1..Len(s) : s[i] # "%" THEN [err |-> Nil, s |-> s]
           ELSE [err |-> Nil,
                 s |-> Concat([i \in 1..Len(s) |->
                                 IF s[i] = "%" THEN << Chr(value(i)) >>
                                 ELSE IF \/ i > 1 /\ s[i - 1] = "%"
                                         \/ i > 2 /\ s[i - 2] = "%"
                                 THEN << >>
                                 ELSE << s[i] >>], 1, Len(s))]
  IN unescaped({i \in 1..Len(s) :
                  IF s[i] = "%"
                  THEN \/ i + 2 > Len(s) \/ ~IsHex(s[i + 1]) \/ ~IsHex(s[i + 2])
                       \/ /\ mode = "encodeHost"
                          /\ HexVal(s[i + 1]) < 8
                          /\ SubSeq(s, i, i + 2) # URLText.zone
                       \/ /\ mode = "encodeZone"
                          /\ SubSeq(s, i, i + 2) # URLText.zone
                          /\ value(i) # 32
                          /\ shouldEscape(Chr(value(i)), "encodeHost")
                  ELSE /\ mode \in {"encodeHost", "encodeZone"}
                       /\ ByteOf(s[i]) < 128
                       /\ shouldEscape(s[i], mode)})

\* escape(s, mode): every byte that must be escaped is written as %XX.
escape(s, mode) ==
  LET \* The hexadecimal digits escape writes.
      upperhex ==
        << "0", "1", "2", "3", "4", "5", "6", "7", "8", "9", "A", "B", "C", "D",
           "E", "F" >>
  IN
  IF \A i \in 1..Len(s) : ~shouldEscape(s[i], mode) THEN s
  ELSE Concat([i \in 1..Len(s) |->
                 IF shouldEscape(s[i], mode)
                 THEN << "%", upperhex[(ByteOf(s[i]) \div 16) + 1],
                         upperhex[(ByteOf(s[i]) % 16) + 1] >>
                 ELSE << s[i] >>], 1, Len(s))

\* validEncoded: whether a text is an encoding that need not be changed.
validEncoded(s, mode) ==
  \A i \in 1..Len(s) :
    \/ s[i] \in {"!", "$", "&", "'", "(", ")", "*", "+", ",", ";", "=", ":",
                 "@", "[", "]", "%"}
    \/ ~shouldEscape(s[i], mode)

\* parseHost: the error, or the host with its escapes replaced.  A host in
\* brackets may carry a zone after %25, which is unescaped by the rules of
\* a zone.
parseHost(host) ==
  LET validOptionalPort(port) ==
        \/ port = << >>
        \/ port[1] = ":" /\ \A j \in 2..Len(port) : IsDigit(port[j])
  IN
  LET bracket == HasPrefix(host, << "[" >>)
      close == LastIndexOf(host, "]")
      colon == LastIndexOf(host, ":")
      zone == IF close = 0 THEN 0 ELSE Index(Take(host, close - 1), URLText.zone)
      \* What follows the host: after the closing bracket, or from the
      \* last colon on.
      port == IF bracket THEN Drop(host, close)
              ELSE IF colon # 0 THEN Drop(host, colon - 1)
              ELSE << >>
      join(host1, host2, host3) ==
        IF host1.err # Nil THEN host1
        ELSE IF host2.err # Nil THEN host2
        ELSE IF host3.err # Nil THEN host3
        ELSE [err |-> Nil, s |-> host1.s \o host2.s \o host3.s]
  IN IF bracket /\ close = 0
     THEN [err |-> ErrorString(URLText.missingBracket), s |-> << >>]
     ELSE IF ~validOptionalPort(port)
     THEN [err |-> ErrorString(URLText.invalidPort \o Quote(port)
                                 \o URLText.afterHost),
           s |-> << >>]
     ELSE IF bracket /\ zone # 0
     THEN join(unescape(Take(host, zone - 1), "encodeHost"),
               unescape(SubSeq(host, zone, close - 1), "encodeZone"),
               unescape(Drop(host, close - 1), "encodeHost"))
     ELSE unescape(host, "encodeHost")

\* parseAuthority: the error, or the user and the host.  The host is what
\* follows the last @ and is read first; the user is no element for a nil
\* *Userinfo and one otherwise (url.User or url.UserPassword).
parseAuthority(authority) ==
  LET validUserinfo(s) ==
        \A i \in 1..Len(s) :
          \/ IsLetter(s[i])
          \/ IsDigit(s[i])
          \/ s[i] \in {"-", ".", "_", ":", "~", "!", "$", "&", "'", "(", ")", "*",
                       "+", ",", ";", "=", "%", "@"}
  IN
  LET at == LastIndexOf(authority, "@")
      info == Take(authority, at - 1)
      colon == IndexOf(info, ":")
      failed(err) == [err |-> err, User |-> << >>, Host |-> << >>]
      \* The authority of the host, the user name and the password as they
      \* were unescaped.
      authorityOf(host, username, password) ==
        IF host.err # Nil THEN failed(host.err)
        ELSE IF at = 0 THEN [err |-> Nil, User |-> << >>, Host |-> host.s]
        ELSE IF ~validUserinfo(info)
        THEN failed(ErrorString(URLText.invalidUserinfo))
        ELSE IF username.err # Nil THEN failed(username.err)
        ELSE IF colon # 0 /\ password.err # Nil THEN failed(password.err)
        ELSE [err |-> Nil,
              User |-> << [username |-> username.s,
                           password |-> IF colon = 0 THEN << >>
                                        ELSE password.s,
                           passwordSet |-> colon # 0] >>,
              Host |-> host.s]
  IN authorityOf(parseHost(Drop(authority, at)),
                 unescape(IF colon = 0 THEN info ELSE Take(info, colon - 1),
                          "encodeUserPassword"),
                 unescape(Drop(info, colon), "encodeUserPassword"))

\* new(URL): a URL with nothing set.
URL ==
  [Scheme |-> << >>, Opaque |-> << >>, User |-> << >>, Host |-> << >>,
   Path |-> << >>, RawPath |-> << >>, OmitHost |-> FALSE,
   ForceQuery |-> FALSE, RawQuery |-> << >>, Fragment |-> << >>,
   RawFragment |-> << >>]

\* URL.setPath: Path is the unescaped path, and RawPath the path as given
\* when escaping Path would not give it back.
setPath(u, p) ==
  LET set(path) ==
        IF path.err # Nil THEN [err |-> path.err, url |-> URL]
        ELSE [err |-> Nil,
              url |-> [u EXCEPT !.Path = path.s,
                                !.RawPath =
                                  IF p = escape(path.s, "encodePath")
                                  THEN << >> ELSE p]]
  IN set(unescape(p, "encodePath"))

\* URL.setFragment, the same for the fragment.
setFragment(u, f) ==
  LET set(frag) ==
        IF frag.err # Nil THEN [err |-> frag.err, url |-> URL]
        ELSE [err |-> Nil,
              url |-> [u EXCEPT !.Fragment = frag.s,
                                !.RawFragment =
                                  IF f = escape(frag.s, "encodeFragment")
                                  THEN << >> ELSE f]]
  IN set(unescape(f, "encodeFragment"))

\* URL.EscapedPath: RawPath when it is a valid encoding of Path, and Path
\* escaped otherwise.
EscapedPath(u) ==
  LET same(p) == p.err = Nil /\ p.s = u.Path
  IN IF /\ u.RawPath # << >>
        /\ validEncoded(u.RawPath, "encodePath")
        /\ same(unescape(u.RawPath, "encodePath"))
     THEN u.RawPath
     ELSE IF u.Path = << "*" >> THEN u.Path
     ELSE escape(u.Path, "encodePath")

\* URL.EscapedFragment
EscapedFragment(u) ==
  LET same(f) == f.err = Nil /\ f.s = u.Fragment
  IN IF /\ u.RawFragment # << >>
        /\ validEncoded(u.RawFragment, "encodeFragment")
        /\ same(unescape(u.RawFragment, "encodeFragment"))
     THEN u.RawFragment
     ELSE escape(u.Fragment, "encodeFragment")

\* getScheme: the error, the scheme and what follows its colon.  A scheme
\* starts with a letter, goes on in letters, digits, + - and . and ends
\* before a colon; a URL that starts with a colon is an error, and any
\* other URL has no scheme.
getScheme(rawURL) ==
  LET schemeChar(c) == IsLetter(c) \/ IsDigit(c) \/ c \in {"+", "-", "."}
      k == CHOOSE k \in 1..(Len(rawURL) + 1) :
             /\ \A j \in 1..(k - 1) : schemeChar(rawURL[j])
             /\ k = Len(rawURL) + 1 \/ ~schemeChar(rawURL[k])
  IN IF rawURL # << >> /\ rawURL[1] = ":"
     THEN [err |-> ErrorString(URLText.missingScheme), scheme |-> << >>,
           path |-> << >>]
     ELSE IF /\ rawURL # << >>
             /\ IsLetter(rawURL[1])
             /\ k <= Len(rawURL)
             /\ rawURL[k] = ":"
     THEN [err |-> Nil, scheme |-> Take(rawURL, k - 1),
           path |-> Drop(rawURL, k)]
     ELSE [err |-> Nil, scheme |-> << >>, path |-> rawURL]

\* parse(rawURL, false): the error, or the URL without a fragment.
parse(rawURL) ==
  LET \* strings.ToLower on ASCII text.
      ToLower(s) ==
        [i \in 1..Len(s) |-> IF IsUpper(s[i]) THEN Chr(ByteOf(s[i]) + 32) ELSE s[i]]
  IN
  LET failed(err) == [err |-> err, url |-> URL]
      \* What precedes the first occurrence of a byte, and what follows it.
      before(s, c) == IF IndexOf(s, c) = 0 THEN s ELSE Take(s, IndexOf(s, c) - 1)
      after(s, c) == IF IndexOf(s, c) = 0 THEN << >> ELSE Drop(s, IndexOf(s, c))
      from(s, c) == IF IndexOf(s, c) = 0 THEN << >> ELSE Drop(s, IndexOf(s, c) - 1)
      \* The URL with its scheme and its query, and the rest: what stands
      \* between the scheme and the query.  A question mark that ends the
      \* URL forces an empty query.
      cut(scheme, s) ==
        IF s # << >> /\ IndexOf(s, "?") = Len(s)
        THEN [u |-> [URL EXCEPT !.Scheme = scheme, !.ForceQuery = TRUE],
              rest |-> Take(s, Len(s) - 1)]
        ELSE [u |-> [URL EXCEPT !.Scheme = scheme, !.RawQuery = after(s, "?")],
              rest |-> before(s, "?")]
      \* Whether the rest starts with an authority.
      hasAuthority(u, r) ==
        /\ u.Scheme # << >> \/ ~HasPrefix(r, << "/", "/", "/" >>)
        /\ HasPrefix(r, << "/", "/" >>)
      rest(u, r, a) ==
        IF ~HasPrefix(r, << "/" >>) /\ u.Scheme # << >>
        THEN [err |-> Nil, url |-> [u EXCEPT !.Opaque = r]]
        ELSE IF ~HasPrefix(r, << "/" >>) /\ IndexOf(before(r, "/"), ":") # 0
        THEN failed(ErrorString(URLText.colonInSegment))
        ELSE IF hasAuthority(u, r) /\ a.err # Nil THEN failed(a.err)
        ELSE setPath(IF hasAuthority(u, r)
                     THEN [u EXCEPT !.User = a.User, !.Host = a.Host]
                     ELSE [u EXCEPT !.OmitHost =
                                      u.Scheme # << >> /\ HasPrefix(r, << "/" >>)],
                     IF hasAuthority(u, r) THEN from(Drop(r, 2), "/") ELSE r)
      g == getScheme(rawURL)
      c == cut(ToLower(g.scheme), g.path)
  IN IF \E i \in 1..Len(rawURL) :
          ByteOf(rawURL[i]) < 32 \/ ByteOf(rawURL[i]) = 127
     THEN failed(ErrorString(URLText.controlChar))
     ELSE IF rawURL = << "*" >>
     THEN [err |-> Nil, url |-> [URL EXCEPT !.Path = rawURL]]
     ELSE IF g.err # Nil THEN failed(g.err)
     ELSE rest(c.u, c.rest, parseAuthority(before(Drop(c.rest, 2), "/")))

\* url.Parse: the URL is cut at its first #, and setFragment reads what
\* follows.  A failure of parse names the URL without its fragment, a
\* failure of the fragment the whole URL.
Parse(rawURL) ==
  LET hash == IndexOf(rawURL, "#")
      u == IF hash = 0 THEN rawURL ELSE Take(rawURL, hash - 1)
      frag == IF hash = 0 THEN << >> ELSE Drop(rawURL, hash)
      fragment(f) ==
        IF f.err # Nil
        THEN [err |-> URLErrorOf(URLText.parse, rawURL, f.err), url |-> URL]
        ELSE f
      parsed(r) ==
        IF r.err # Nil
        THEN [err |-> URLErrorOf(URLText.parse, u, r.err), url |-> URL]
        ELSE IF frag = << >> THEN r
        ELSE fragment(setFragment(r.url, frag))
  IN parsed(parse(u))

\* Userinfo.String: the user name and the password, escaped.
UserinfoString(user) ==
  escape(user.username, "encodeUserPassword")
    \o (IF user.passwordSet
        THEN << ":" >> \o escape(user.password, "encodeUserPassword")
        ELSE << >>)

\* URL.String: the URL put together from its parts.
URLString(u) ==
  LET scheme == IF u.Scheme # << >> THEN u.Scheme \o << ":" >> ELSE << >>
      authority ==
        IF u.Scheme # << >> \/ u.Host # << >> \/ u.User # << >>
        THEN IF u.OmitHost /\ u.Host = << >> /\ u.User = << >> THEN << >>
             ELSE (IF u.Host # << >> \/ u.Path # << >> \/ u.User # << >>
                   THEN << "/", "/" >> ELSE << >>)
                    \o (IF u.User # << >>
                        THEN UserinfoString(u.User[1]) \o << "@" >>
                        ELSE << >>)
                    \o escape(u.Host, "encodeHost")
        ELSE << >>
      rooted(path) ==
        IF path # << >> /\ path[1] # "/" /\ u.Host # << >>
        THEN << "/" >> \o path
        ELSE IF /\ scheme \o authority = << >>
                /\ IndexOf(IF IndexOf(path, "/") = 0 THEN path
                           ELSE Take(path, IndexOf(path, "/") - 1), ":") # 0
        THEN << ".", "/" >> \o path
        ELSE path
  IN scheme
       \o (IF u.Opaque # << >> THEN u.Opaque
           ELSE authority \o rooted(EscapedPath(u)))
       \o (IF u.ForceQuery \/ u.RawQuery # << >>
           THEN << "?" >> \o u.RawQuery ELSE << >>)
       \o (IF u.Fragment # << >>
           THEN << "#" >> \o EscapedFragment(u) ELSE << >>)

\* resolvePath: the reference path ref applied to the path base, with the
\* . and .. elements removed.
resolvePath(base, ref) ==
  LET full == IF ref = << >> THEN base
              ELSE IF ref[1] # "/"
              THEN Take(base, LastIndexOf(base, "/")) \o ref
              ELSE ref
      \* The positions of the slashes of full, and one after its end.
      cuts == {i \in 1..Len(full) : full[i] = "/"} \cup {Len(full) + 1}
      cut(k) == CHOOSE i \in cuts : Cardinality({j \in cuts : j < i}) = k - 1
      elem(k) == SubSeq(full, IF k = 1 THEN 1 ELSE cut(k - 1) + 1, cut(k) - 1)
      last == elem(Cardinality(cuts))
      \* dst without its leading slash and first, after one element.
      step(st, e) ==
        IF e = << "." >> THEN [st EXCEPT !.first = FALSE]
        ELSE IF e = << ".", "." >>
        THEN IF LastIndexOf(st.dst, "/") = 0
             THEN [dst |-> << >>, first |-> TRUE]
             ELSE [st EXCEPT !.dst = Take(st.dst, LastIndexOf(st.dst, "/") - 1)]
        ELSE [dst |-> st.dst \o (IF st.first THEN << >> ELSE << "/" >>) \o e,
              first |-> FALSE]
      RECURSIVE walk(_)
      walk(k) ==
        IF k = 0 THEN [dst |-> << >>, first |-> TRUE]
        ELSE step(walk(k - 1), elem(k))
      slashed(dst) ==
        << "/" >> \o dst
          \o (IF last \in {<< "." >>, << ".", "." >>} THEN << "/" >> ELSE << >>)
      single(r) == IF Len(r) > 1 /\ r[2] = "/" THEN Drop(r, 1) ELSE r
  IN IF full = << >> THEN << >>
     ELSE single(slashed(walk(Cardinality(cuts)).dst))

\* URL.ResolveReference: the URL a reference ref means when it is found at
\* the URL u.
ResolveReference(u, ref) ==
  LET inherit ==
        ref.Path = << >> /\ ~ref.ForceQuery /\ ref.RawQuery = << >>
      absolute == ref.Scheme # << >> \/ ref.Host # << >> \/ ref.User # << >>
      url == [ref EXCEPT
                !.Scheme = IF ref.Scheme = << >> THEN u.Scheme ELSE @,
                !.RawQuery = IF inherit THEN u.RawQuery ELSE @,
                !.Fragment =
                  IF inherit /\ ref.Fragment = << >> THEN u.Fragment ELSE @,
                !.RawFragment =
                  IF inherit /\ ref.Fragment = << >> THEN u.RawFragment
                  ELSE @]
      resolved(base, path) ==
        IF absolute
        THEN setPath([ref EXCEPT !.Scheme =
                                   IF ref.Scheme = << >> THEN u.Scheme ELSE @],
                     resolvePath(path, << >>)).url
        ELSE IF ref.Opaque # << >>
        THEN [ref EXCEPT !.Scheme = u.Scheme, !.User = << >>, !.Host = << >>,
                         !.Path = << >>]
        ELSE IF ref.Path = << >> /\ u.Opaque # << >>
        THEN [url EXCEPT !.Opaque = u.Opaque, !.User = << >>, !.Host = << >>,
                         !.Path = << >>]
        ELSE setPath([url EXCEPT !.Host = u.Host, !.User = u.User],
                     resolvePath(base, path)).url
  IN resolved(EscapedPath(u), EscapedPath(ref))

----------------------------------------------------------------------------
(* net/http: http.NewRequest and Client.Do with the default transport and  *)
(* the default redirect policy.                                            *)

\* The texts of net/http: the method as client.Do's error names it, the
\* header the program sets, the two schemes the transport knows and the
\* errors of the transport and the client.
HTTPText ==
  [get |->  \* Get 
     << "G", "e", "t", " " >>,
   headerName |->  \* Ocp-Apim-Subscription-Key
     << "O", "c", "p", "-", "A", "p", "i", "m", "-", "S", "u", "b", "s",
        "c", "r", "i", "p", "t", "i", "o", "n", "-", "K", "e", "y" >>,
   http |->  \* http
     << "h", "t", "t", "p" >>,
   https |->  \* https
     << "h", "t", "t", "p", "s" >>,
   headerValue |->  \* net/http: invalid header field value for 
     << "n", "e", "t", "/", "h", "t", "t", "p", ":", " ", "i", "n", "v",
        "a", "l", "i", "d", " ", "h", "e", "a", "d", "e", "r", " ", "f",
        "i", "e", "l", "d", " ", "v", "a", "l", "u", "e", " ", "f", "o",
        "r", " " >>,
   unsupportedScheme |->  \* unsupported protocol scheme 
     << "u", "n", "s", "u", "p", "p", "o", "r", "t", "e", "d", " ", "p",
        "r", "o", "t", "o", "c", "o", "l", " ", "s", "c", "h", "e", "m",
        "e", " " >>,
   noHost |->  \* http: no Host in request URL
     << "h", "t", "t", "p", ":", " ", "n", "o", " ", "H", "o", "s", "t",
        " ", "i", "n", " ", "r", "e", "q", "u", "e", "s", "t", " ", "U",
        "R", "L" >>,
   location |->  \* failed to parse Location header 
     << "f", "a", "i", "l", "e", "d", " ", "t", "o", " ", "p", "a", "r",
        "s", "e", " ", "L", "o", "c", "a", "t", "i", "o", "n", " ", "h",
        "e", "a", "d", "e", "r", " " >>,
   stopped |->  \* stopped after 10 redirects
     << "s", "t", "o", "p", "p", "e", "d", " ", "a", "f", "t", "e", "r",
        " ", "1", "0", " ", "r", "e", "d", "i", "r", "e", "c", "t", "s" >>]

\* http.NewRequest("GET", url, nil): the error of url.Parse, or the
\* request's URL.
NewRequest(url) ==
  LET \* removeEmptyPort: a host that ends in a colon loses it.
      removeEmptyPort(host) ==
        IF /\ LastIndexOf(host, ":") > LastIndexOf(host, "]")
           /\ host[Len(host)] = ":"
        THEN Take(host, Len(host) - 1)
        ELSE host
  IN
  LET request(u) ==
        IF u.err # Nil THEN u
        ELSE [u EXCEPT !.url.Host = removeEmptyPort(u.url.Host)]
  IN request(Parse(url))

\* stripPassword: the URL as the client's errors show it, the password
\* replaced by three stars.
stripPassword(u) ==
  LET replace(s, old, new) ==
        IF Index(s, old) = 0 THEN s
        ELSE Take(s, Index(s, old) - 1) \o new
               \o Drop(s, Index(s, old) - 1 + Len(old))
      strip(s) ==
        IF u.User # << >> /\ u.User[1].passwordSet
        THEN replace(s, UserinfoString(u.User[1]) \o << "@" >>,
                     u.User[1].username \o URLText.stars)
        ELSE s
  IN strip(URLString(u))

\* What Transport.roundTrip refuses before it opens a connection: a header
\* value with a control character, a scheme other than http and https, a
\* URL without a host.
RoundTripError(u, key) ==
  LET \* httpguts.ValidHeaderFieldValue: no control character but the tab.
      ValidHeaderFieldValue(v) ==
        \A i \in 1..Len(v) :
          ~((ByteOf(v[i]) < 32 \/ ByteOf(v[i]) = 127) /\ v[i] # "\t")
  IN
  IF u.Scheme \in {HTTPText.http, HTTPText.https} /\ ~ValidHeaderFieldValue(key)
  THEN ErrorString(HTTPText.headerValue \o Quote(HTTPText.headerName))
  ELSE IF u.Scheme \notin {HTTPText.http, HTTPText.https}
  THEN NewError("*http.badStringError",
                HTTPText.unsupportedScheme \o Quote(u.Scheme))
  ELSE IF u.Host = << >> THEN ErrorString(HTTPText.noHost)
  ELSE Nil

----------------------------------------------------------------------------
(* The program's constants and message texts. *)

\* sports-analytics-data-lake3
bucketName ==
  << "s", "p", "o", "r", "t", "s", "-", "a", "n", "a", "l", "y", "t", "i",
     "c", "s", "-", "d", "a", "t", "a", "-", "l", "a", "k", "e", "3" >>

\* glue_nba_data_lake
glueDBName ==
  << "g", "l", "u", "e", "_", "n", "b", "a", "_", "d", "a", "t", "a", "_",
     "l", "a", "k", "e" >>

\* nba_data.json
objectKey ==
  << "n", "b", "a", "_", "d", "a", "t", "a", ".", "j", "s", "o", "n" >>

\* The texts of the errors the program returns.
Msg ==
  [apiReturned |->  \* API returned 
     << "A", "P", "I", " ", "r", "e", "t", "u", "r", "n", "e", "d", " " >>,
   createBucket |->  \* failed to create bucket: 
     << "f", "a", "i", "l", "e", "d", " ", "t", "o", " ", "c", "r", "e",
        "a", "t", "e", " ", "b", "u", "c", "k", "e", "t", ":", " " >>,
   checkBucket |->  \* failed to check if bucket exists: 
     << "f", "a", "i", "l", "e", "d", " ", "t", "o", " ", "c", "h", "e",
        "c", "k", " ", "i", "f", " ", "b", "u", "c", "k", "e", "t", " ",
        "e", "x", "i", "s", "t", "s", ":", " " >>,
   createRequest |->  \* failed to create request: 
     << "f", "a", "i", "l", "e", "d", " ", "t", "o", " ", "c", "r", "e",
        "a", "t", "e", " ", "r", "e", "q", "u", "e", "s", "t", ":", " " >>,
   requestFailed |->  \* API request failed: 
     << "A", "P", "I", " ", "r", "e", "q", "u", "e", "s", "t", " ", "f",
        "a", "i", "l", "e", "d", ":", " " >>,
   unexpected |->  \* unexpected JSON structure
     << "u", "n", "e", "x", "p", "e", "c", "t", "e", "d", " ", "J", "S",
        "O", "N", " ", "s", "t", "r", "u", "c", "t", "u", "r", "e" >>]

StatusOK == 200

----------------------------------------------------------------------------
(* The failures the services and the network answer with. *)

\* The texts of the failures: the error codes of the services, the failure
\* to load the shared configuration, a refused connection as the dialer,
\* the system call and the error number word it, and a connection that is
\* reset while the body is read.
FaultText ==
  [notFound |->  \* NotFound
     << "N", "o", "t", "F", "o", "u", "n", "d" >>,
   forbidden |->  \* Forbidden
     << "F", "o", "r", "b", "i", "d", "d", "e", "n" >>,
   accessDenied |->  \* AccessDenied
     << "A", "c", "c", "e", "s", "s", "D", "e", "n", "i", "e", "d" >>,
   alreadyExists |->  \* AlreadyExistsException
     << "A", "l", "r", "e", "a", "d", "y", "E", "x", "i", "s", "t", "s",
        "E", "x", "c", "e", "p", "t", "i", "o", "n" >>,
   alreadyOwned |->  \* BucketAlreadyOwnedByYou
     << "B", "u", "c", "k", "e", "t", "A", "l", "r", "e", "a", "d", "y",
        "O", "w", "n", "e", "d", "B", "y", "Y", "o", "u" >>,
   bucketExists |->  \* BucketAlreadyExists
     << "B", "u", "c", "k", "e", "t", "A", "l", "r", "e", "a", "d", "y",
        "E", "x", "i", "s", "t", "s" >>,
   sharedConfig |->  \* failed to load shared config
     << "f", "a", "i", "l", "e", "d", " ", "t", "o", " ", "l", "o", "a",
        "d", " ", "s", "h", "a", "r", "e", "d", " ", "c", "o", "n", "f",
        "i", "g" >>,
   dial |->  \* dial tcp 10.0.0.1:443: connect: connection refused
     << "d", "i", "a", "l", " ", "t", "c", "p", " ", "1", "0", ".", "0",
        ".", "0", ".", "1", ":", "4", "4", "3", ":", " ", "c", "o", "n",
        "n", "e", "c", "t", ":", " ", "c", "o", "n", "n", "e", "c", "t",
        "i", "o", "n", " ", "r", "e", "f", "u", "s", "e", "d" >>,
   connect |->  \* connect: connection refused
     << "c", "o", "n", "n", "e", "c", "t", ":", " ", "c", "o", "n", "n",
        "e", "c", "t", "i", "o", "n", " ", "r", "e", "f", "u", "s", "e",
        "d" >>,
   connRefused |->  \* connection refused
     << "c", "o", "n", "n", "e", "c", "t", "i", "o", "n", " ", "r", "e",
        "f", "u", "s", "e", "d" >>,
   readTcp |->  \* read tcp 10.0.0.2:51234->10.0.0.1:443: read: connection reset by peer
     << "r", "e", "a", "d", " ", "t", "c", "p", " ", "1", "0", ".", "0",
        ".", "0", ".", "2", ":", "5", "1", "2", "3", "4", "-", ">", "1",
        "0", ".", "0", ".", "0", ".", "1", ":", "4", "4", "3", ":", " ",
        "r", "e", "a", "d", ":", " ", "c", "o", "n", "n", "e", "c", "t",
        "i", "o", "n", " ", "r", "e", "s", "e", "t", " ", "b", "y", " ",
        "p", "e", "e", "r" >>,
   read |->  \* read: connection reset by peer
     << "r", "e", "a", "d", ":", " ", "c", "o", "n", "n", "e", "c", "t",
        "i", "o", "n", " ", "r", "e", "s", "e", "t", " ", "b", "y", " ",
        "p", "e", "e", "r" >>,
   connReset |->  \* connection reset by peer
     << "c", "o", "n", "n", "e", "c", "t", "i", "o", "n", " ", "r", "e",
        "s", "e", "t", " ", "b", "y", " ", "p", "e", "e", "r" >>]

\* The failures by name.  NotFound and Forbidden are what HeadBucket
\* answers for a bucket that does not exist and for one of another
\* account, AlreadyOwned and BucketExists what CreateBucket answers for a
\* name that is taken, AlreadyExists what the catalog answers for a
\* database or a table that exists, AccessDenied a failure that does not
\* depend on the resource.  ConnRefused is a refused connection as the
\* dialer reports it, ConnReset a connection reset while a body is read,
\* UnexpectedEOF a body that ends before its declared length.
Fault ==
  [NotFound |-> NewError("*types.NotFound", FaultText.notFound),
   Forbidden |-> NewError("*smithy.GenericAPIError", FaultText.forbidden),
   AccessDenied |-> NewError("*smithy.GenericAPIError", FaultText.accessDenied),
   AlreadyExists |->
     NewError("*types.AlreadyExistsException", FaultText.alreadyExists),
   AlreadyOwned |->
     NewError("*types.BucketAlreadyOwnedByYou", FaultText.alreadyOwned),
   BucketExists |->
     NewError("*types.BucketAlreadyExists", FaultText.bucketExists),
   SharedConfig |->
     NewError("config.SharedConfigLoadError", FaultText.sharedConfig),
   ConnRefused |->
     << [type |-> "*net.OpError", text |-> FaultText.dial],
        [type |-> "*os.SyscallError", text |-> FaultText.connect],
        [type |-> "syscall.Errno", text |-> FaultText.connRefused] >>,
   ConnReset |->
     << [type |-> "*net.OpError", text |-> FaultText.readTcp],
        [type |-> "*os.SyscallError", text |-> FaultText.read],
        [type |-> "syscall.Errno", text |-> FaultText.connReset] >>,
   UnexpectedEOF |-> NewError("*errors.errorString", JSONText.unexpectedEOF)]

\* What a service may answer instead of acting: nothing, or a failure that
\* does not depend on the resource (permissions, throttling, transport).
AwsFaults == {Nil, Fault.AccessDenied}

\* One external call of a run: the operation, its input and its error.
Call(op, arg, err) == [op |-> op, arg |-> arg, err |-> err]

\* One log line: the format string and the text of its argument.
LogLine(format, arg) == [format |-> format, arg |-> arg]

----------------------------------------------------------------------------
(* The storage, catalog and query services, as the program's calls see     *)
(* them.  Each takes the resource's state and the fault the service        *)
(* answers with (Nil for none).  The bucket's name is either free, or the  *)
(* bucket exists in the program's account, or the name is taken by a       *)
(* bucket of another account.                                              *)

HeadBucket(exists, taken, fault) ==
  IF fault # Nil THEN fault
  ELSE IF exists THEN Nil
  ELSE IF taken THEN Fault.Forbidden
  ELSE Fault.NotFound

\* CreateBucket in the region us-east-1 the program configures.  For a
\* bucket the account owns already the service answers with success (its
\* behaviour in us-east-1) or with BucketAlreadyOwnedByYou.
CreateBucket(exists, taken, fault, owned) ==
  IF fault # Nil THEN [err |-> fault, exists |-> exists]
  ELSE IF taken THEN [err |-> Fault.BucketExists, exists |-> FALSE]
  ELSE IF exists THEN [err |-> owned, exists |-> TRUE]
  ELSE [err |-> Nil, exists |-> TRUE]

CreateDatabase(exists, fault) ==
  IF fault # Nil THEN [err |-> fault, exists |-> exists]
  ELSE IF exists THEN [err |-> Fault.AlreadyExists, exists |-> TRUE]
  ELSE [err |-> Nil, exists |-> TRUE]

CreateTable(exists, fault) ==
  IF fault # Nil THEN [err |-> fault, exists |-> exists]
  ELSE IF exists THEN [err |-> Fault.AlreadyExists, exists |-> TRUE]
  ELSE [err |-> Nil, exists |-> TRUE]

\* PutObject stores the body under the key, replacing what was there.
PutObject(objects, input, fault) ==
  IF fault # Nil THEN [err |-> fault, objects |-> objects]
  ELSE [err |-> Nil, objects |-> << input.Body >>]

----------------------------------------------------------------------------
(* init *)

\* A variant without the check of NBA_ENDPOINT.  C5 does not hold of it.
initNoEndpointCheck(env) ==
  IF env.dotenvErr
  THEN [fatal |-> TRUE, apiKey |-> << >>, nbaEndpoint |-> << >>,
        log |-> << LogLine("Error loading .env file", << >>) >>]
  ELSE IF env.SPORTS_DATA_API_KEY = << >>
  THEN [fatal |-> TRUE, apiKey |-> << >>, nbaEndpoint |-> << >>,
        log |-> << LogLine("SPORTS_DATA_API_KEY is not set", << >>) >>]
  ELSE [fatal |-> FALSE, apiKey |-> env.SPORTS_DATA_API_KEY,
        nbaEndpoint |-> env.NBA_ENDPOINT, log |-> << >>]

\* What init leaves: whether log.Fatal ended the process, the line it
\* logged, and the two globals.
init(env) ==
  IF env.dotenvErr
  THEN [fatal |-> TRUE, apiKey |-> << >>, nbaEndpoint |-> << >>,
        log |-> << LogLine("Error loading .env file", << >>) >>]
  ELSE IF env.SPORTS_DATA_API_KEY = << >>
  THEN [fatal |-> TRUE, apiKey |-> << >>, nbaEndpoint |-> << >>,
        log |-> << LogLine("SPORTS_DATA_API_KEY is not set", << >>) >>]
  ELSE IF env.NBA_ENDPOINT = << >>
  THEN [fatal |-> TRUE, apiKey |-> env.SPORTS_DATA_API_KEY,
        nbaEndpoint |-> << >>,
        log |-> << LogLine("NBA_ENDPOINT is not set", << >>) >>]
  ELSE [fatal |-> FALSE, apiKey |-> env.SPORTS_DATA_API_KEY,
        nbaEndpoint |-> env.NBA_ENDPOINT, log |-> << >>]

----------------------------------------------------------------------------
(* createS3Bucket and createGlueDatabase *)

\* A variant without the existence probe's verdict: CreateBucket is sent
\* whatever HeadBucket returned.  C2 does not hold of it.
createS3BucketUnconditional(err, create) ==
  IF create = << >>
  THEN [create |-> TRUE, err |-> Nil, log |-> << >>]
  ELSE IF create[1] # Nil
  THEN [create |-> FALSE, err |-> Errorf(Msg.createBucket, create[1]),
        log |-> << >>]
  ELSE [create |-> FALSE, err |-> Nil,
        log |-> << LogLine("Bucket %s created successfully", bucketName) >>]

\* A variant that takes every failure of the probe for "not found".  C9
\* does not hold of it.
createS3BucketCreateOnAnyError(err, create) ==
  IF err = Nil
  THEN [create |-> FALSE, err |-> Nil,
        log |-> << LogLine("Bucket %s already exists", bucketName) >>]
  ELSE IF create = << >>
  THEN [create |-> TRUE, err |-> Nil, log |-> << >>]
  ELSE IF create[1] # Nil
  THEN [create |-> FALSE, err |-> Errorf(Msg.createBucket, create[1]),
        log |-> << >>]
  ELSE [create |-> FALSE, err |-> Nil,
        log |-> << LogLine("Bucket %s created successfully", bucketName) >>]

\* createS3Bucket from the return of HeadBucket on: err is what HeadBucket
\* returned, and create what CreateBucket returned (a sequence of one
\* error) once it has been called, the empty sequence before.  The result
\* says whether CreateBucket is called next, and if not, what the
\* function returns and logs.
createS3Bucket(err, create) ==
  IF err = Nil
  THEN [create |-> FALSE, err |-> Nil,
        log |-> << LogLine("Bucket %s already exists", bucketName) >>]
  ELSE IF ErrorsAs(err, "*types.NotFound")
  THEN IF create = << >>
       THEN [create |-> TRUE, err |-> Nil, log |-> << >>]
       ELSE IF create[1] # Nil
       THEN [create |-> FALSE, err |-> Errorf(Msg.createBucket, create[1]),
             log |-> << >>]
       ELSE [create |-> FALSE, err |-> Nil,
             log |-> << LogLine("Bucket %s created successfully",
                                bucketName) >>]
  ELSE [create |-> FALSE, err |-> Errorf(Msg.checkBucket, err), log |-> << >>]

\* A variant that probes first and creates only an absent database.  C8
\* does not hold of it.
createGlueDatabaseProbing(exists, fault) ==
  IF fault # Nil
  THEN [err |-> fault, exists |-> exists,
        calls |-> << Call("GetDatabase", glueDBName, fault) >>]
  ELSE IF exists
  THEN [err |-> Nil, exists |-> TRUE,
        calls |-> << Call("GetDatabase", glueDBName, Nil) >>]
  ELSE [err |-> Nil, exists |-> TRUE,
        calls |-> << Call("CreateDatabase", glueDBName, Nil) >>]

createGlueDatabase(exists, fault) ==
  LET c == CreateDatabase(exists, fault)
  IN [err |-> c.err, exists |-> c.exists,
      calls |-> << Call("CreateDatabase", glueDBName, c.err) >>]

----------------------------------------------------------------------------
(* fetchNBAData *)

\* What the server and the network answer to one request: a fault of the
\* transport, or a response with a status, a Location header (empty when
\* there is none) and a body, of which the bytes of body arrive and then
\* the failure readErr (Nil when the body arrives whole).
Answer(fault, status, location, body, readErr) ==
  [fault |-> fault, status |-> status, location |-> location, body |-> body,
   readErr |-> readErr]

\* The response client.Do returns for an answer.  A response with the
\* status 204 or 304 has no body, whatever the server sent.
Response(answer) ==
  [StatusCode |-> answer.status,
   Body |-> IF answer.status \in {204, 304} THEN << >> ELSE answer.body,
   readErr |-> IF answer.status \in {204, 304} THEN Nil ELSE answer.readErr]

\* Client.Do with the default redirect policy, from the request for the
\* URL u on; calls are the requests sent before it.  net holds the answer
\* to the first request, to the second and so on, the last one being the
\* answer to every further request.  A response with the status 301, 302,
\* 303, 307 or 308 and a Location header is followed with a request for
\* the URL the header means, the program's header copied to it, until ten
\* requests have been sent.  The error of a failure names the URL of the
\* request that failed, and the Location header when the redirect policy
\* stops.
RECURSIVE clientDo(_, _, _, _)
clientDo(u, key, net, calls) ==
  LET sent(url, err) ==
        Append(calls, Call("GET", [url |-> url, header |-> key], err))
      failed(url, err, requests) ==
        [resp |-> Response(Answer(Nil, 0, << >>, << >>, Nil)),
         err |-> URLErrorOf(HTTPText.get, url, err), calls |-> requests]
      \* err is what the transport refuses, answer the answer to the
      \* request, ref its Location header as url.Parse reads it, url the
      \* URL of the request and shown the same without its password.
      roundTrip(err, answer, ref, url, shown) ==
        IF err # Nil THEN failed(shown, err, calls)
        ELSE IF answer.fault # Nil
        THEN failed(shown, answer.fault, sent(url, answer.fault))
        ELSE IF ~(/\ answer.status \in {301, 302, 303, 307, 308}
                  /\ answer.location # << >>)
        THEN [resp |-> Response(answer), err |-> Nil, calls |-> sent(url, Nil)]
        ELSE IF ref.err # Nil
        THEN failed(shown,
                    ErrorString(HTTPText.location \o Quote(answer.location)
                                  \o << ":", " " >> \o ErrorText(ref.err)),
                    sent(url, Nil))
        ELSE IF Len(calls) + 1 >= 10
        THEN failed(answer.location, ErrorString(HTTPText.stopped),
                    sent(url, Nil))
        ELSE clientDo(ResolveReference(u, ref.url), key, net, sent(url, Nil))
      answer ==
        net[IF Len(calls) < Len(net) THEN Len(calls) + 1 ELSE Len(net)]
  IN roundTrip(RoundTripError(u, key), answer, Parse(answer.location),
               URLString(u), stripPassword(u))

\* A variant whose message leaves the body out.  C6 does not hold of it.
StatusErrorNoBody(status, body) ==
  NewError("*errors.errorString", Msg.apiReturned \o FormatInt(status))

\* The error for a status other than 200; body is what io.ReadAll read of
\* the response's body.
StatusError(status, body) ==
  NewError("*errors.errorString",
           Msg.apiReturned \o FormatInt(status) \o << ":", " " >> \o body)

\* A variant that accepts arrays only.  C1 does not hold of it.
RecordsArraysOnly(result) ==
  IF result.t = "slice"
  THEN IF \E i \in 1..Len(result.a) : result.a[i].t # "map"
       THEN [data |-> << >>, err |-> Nil, panic |-> TRUE]
       ELSE [data |-> [i \in 1..Len(result.a) |-> result.a[i].m],
             err |-> Nil, panic |-> FALSE]
  ELSE [data |-> << >>,
        err |-> NewError("*errors.errorString", Msg.unexpected),
        panic |-> FALSE]

\* The type switch on the decoded value.  item.(map[string]interface{}) on
\* an element that is no map is a run-time panic.
Records(result) ==
  IF result.t = "slice"
  THEN IF \E i \in 1..Len(result.a) : result.a[i].t # "map"
       THEN [data |-> << >>, err |-> Nil, panic |-> TRUE]
       ELSE [data |-> [i \in 1..Len(result.a) |-> result.a[i].m],
             err |-> Nil, panic |-> FALSE]
  ELSE IF result.t = "map"
  THEN [data |-> << result.m >>, err |-> Nil, panic |-> FALSE]
  ELSE [data |-> << >>,
        err |-> NewError("*errors.errorString", Msg.unexpected),
        panic |-> FALSE]

\* fetchNBAData from client.Do's return on: the error of client.Do, the
\* error for a status other than 200, the error of the decoder, or the
\* batch.
fetchResponse(do) ==
  LET returned(data, err, panic, decoded, got) ==
        [data |-> data, err |-> err, panic |-> panic, decoded |-> decoded,
         calls |-> do.calls, resp |-> do.resp, got |-> got]
      records(r) == returned(r.data, r.err, r.panic, TRUE, TRUE)
      decoded(d) ==
        IF d.err # Nil THEN returned(<< >>, d.err, FALSE, TRUE, TRUE)
        ELSE records(Records(d.v))
  IN IF do.err # Nil
     THEN returned(<< >>, Errorf(Msg.requestFailed, do.err), FALSE, FALSE,
                   FALSE)
     ELSE IF do.resp.StatusCode # StatusOK
     THEN returned(<< >>, StatusError(do.resp.StatusCode, do.resp.Body),
                   FALSE, FALSE, TRUE)
     ELSE decoded(Decode(do.resp.Body, do.resp.readErr))

\* fetchNBAData from http.NewRequest's return on: its error, or what
\* follows from client.Do.
fetchRequest(req, key, net) ==
  IF req.err # Nil
  THEN [data |-> << >>, err |-> Errorf(Msg.createRequest, req.err),
        panic |-> FALSE, decoded |-> FALSE, calls |-> << >>,
        resp |-> Response(Answer(Nil, 0, << >>, << >>, Nil)), got |-> FALSE]
  ELSE fetchResponse(clientDo(req.url, key, net, << >>))

\* fetchNBAData for the values of nbaEndpoint and apiKey and the answers
\* of the network: the batch and the error it returns or that it panics,
\* the requests sent, the response client.Do returned (got says that there
\* is one) and whether the body was given to the JSON decoder.
fetchNBAData(endpoint, key, net) ==
  fetchRequest(NewRequest(endpoint), key, net)

----------------------------------------------------------------------------
(* uploadDataToS3, createGlueTable, configureAthena *)

\* A variant that puts the newline between the lines only, as
\* strings.Join would.  C4 does not hold of it.
RECURSIVE convertJoined(_)
convertJoined(data) ==
  IF data = << >> THEN << >>
  ELSE IF Len(data) = 1 THEN Marshal(JObj(Head(data)))
  ELSE Marshal(JObj(Head(data))) \o << "\n" >> \o convertJoined(Tail(data))

RECURSIVE convertToLineDelimitedJSON(_)
convertToLineDelimitedJSON(data) ==
  IF data = << >> THEN << >>
  ELSE Marshal(JObj(Head(data))) \o << "\n" >>
         \o convertToLineDelimitedJSON(Tail(data))

uploadDataToS3(objects, bucket, data, fault) ==
  LET jsonData == convertToLineDelimitedJSON(data)
      input == [Bucket |-> bucket, Key |-> objectKey, Body |-> jsonData,
                ContentLength |-> Len(jsonData)]
      p == PutObject(objects, input, fault)
  IN [err |-> p.err, objects |-> p.objects,
      calls |-> << Call("PutObject", input, p.err) >>]

createGlueTable(exists, fault) ==
  LET c == CreateTable(exists, fault)
  IN [err |-> c.err, exists |-> c.exists,
      calls |-> << Call("CreateTable", glueDBName, c.err) >>]

configureAthena(fault) ==
  [err |-> fault,
   calls |-> << Call("StartQueryExecution", glueDBName, fault) >>]

----------------------------------------------------------------------------
(* The inputs of a run: the process environment after godotenv.Load, and   *)
(* what the data source answers.                                           *)

\* The values NBA_ENDPOINT may have: a URL, one that URL.String writes
\* otherwise than it was given (the scheme in lower case, the password
\* hidden in an error, the empty port and the empty fragment removed, the
\* space of the path escaped), one without a scheme, one that url.Parse
\* reads as the opaque part of the scheme localhost, and one with a
\* malformed escape after U+2028.
Endpoint ==
  [ok |->  \* https://api/Players
     << "h", "t", "t", "p", "s", ":", "/", "/", "a", "p", "i", "/", "P",
        "l", "a", "y", "e", "r", "s" >>,
   rewritten |->  \* HTTPS://u:p@Api:/NBA Players?#
     << "H", "T", "T", "P", "S", ":", "/", "/", "u", ":", "p", "@", "A",
        "p", "i", ":", "/", "N", "B", "A", " ", "P", "l", "a", "y", "e",
        "r", "s", "?", "#" >>,
   noScheme |->  \* :8080/Players
     << ":", "8", "0", "8", "0", "/", "P", "l", "a", "y", "e", "r", "s" >>,
   opaque |->  \* localhost:8080/Players
     << "l", "o", "c", "a", "l", "h", "o", "s", "t", ":", "8", "0", "8",
        "0", "/", "P", "l", "a", "y", "e", "r", "s" >>,
   badEscape |->  \* http://h/\xe2\x80\xa8%zz
     << "h", "t", "t", "p", ":", "/", "/", "h", "/", "xe2", "x80", "xa8",
        "%", "z", "z" >>]

\* k3y
KeyOK ==
  << "k", "3", "y" >>

\* The bodies the data source may answer with.
Body ==
  [two |->  \* [{"id":"1","name":"A"},{"id":"2","name":"B"}]
     << "[", "{", "\"", "i", "d", "\"", ":", "\"", "1", "\"", ",", "\"",
        "n", "a", "m", "e", "\"", ":", "\"", "A", "\"", "}", ",", "{",
        "\"", "i", "d", "\"", ":", "\"", "2", "\"", ",", "\"", "n", "a",
        "m", "e", "\"", ":", "\"", "B", "\"", "}", "]" >>,
   emptyArray |->  \* []
     << "[", "]" >>,
   object |->  \* {"name":"A","id":"1"}
     << "{", "\"", "n", "a", "m", "e", "\"", ":", "\"", "A", "\"", ",",
        "\"", "i", "d", "\"", ":", "\"", "1", "\"", "}" >>,
   string |->  \* "ok"
     << "\"", "o", "k", "\"" >>,
   number |->  \* 42
     << "4", "2" >>,
   true |->  \* true
     << "t", "r", "u", "e" >>,
   null |->  \* null
     << "n", "u", "l", "l" >>,
   mixed |->  \* [{"id":"1"},7]
     << "[", "{", "\"", "i", "d", "\"", ":", "\"", "1", "\"", "}", ",",
        "7", "]" >>,
   nullElem |->  \* [null]
     << "[", "n", "u", "l", "l", "]" >>,
   truncated |->  \* {"id":
     << "{", "\"", "i", "d", "\"", ":" >>,
   denied |->  \* Access denied
     << "A", "c", "c", "e", "s", "s", " ", "d", "e", "n", "i", "e", "d" >>,
   nested |->  \* [{"stats":{"pts":[30,-2]},"name":"a\nb<"}, {"ok":false}]
     << "[", "{", "\"", "s", "t", "a", "t", "s", "\"", ":", "{", "\"", "p",
        "t", "s", "\"", ":", "[", "3", "0", ",", "-", "2", "]", "}", ",",
        "\"", "n", "a", "m", "e", "\"", ":", "\"", "a", "\\", "n", "b",
        "<", "\"", "}", ",", " ", "{", "\"", "o", "k", "\"", ":", "f", "a",
        "l", "s", "e", "}", "]" >>,
   floats |->  \* [{"a":1.5,"b":1e2,"c":-0,"d":2.50E-7}]
     << "[", "{", "\"", "a", "\"", ":", "1", ".", "5", ",", "\"", "b",
        "\"", ":", "1", "e", "2", ",", "\"", "c", "\"", ":", "-", "0", ",",
        "\"", "d", "\"", ":", "2", ".", "5", "0", "E", "-", "7", "}", "]" >>,
   long |->  \* [{"a":123456789012345678,"b":0.1234567890123456789,"c":9007199254740993,"d":999999999999999999999,"e":179769313486231580793e288}]
     << "[", "{", "\"", "a", "\"", ":", "1", "2", "3", "4", "5", "6", "7",
        "8", "9", "0", "1", "2", "3", "4", "5", "6", "7", "8", ",", "\"",
        "b", "\"", ":", "0", ".", "1", "2", "3", "4", "5", "6", "7", "8",
        "9", "0", "1", "2", "3", "4", "5", "6", "7", "8", "9", ",", "\"",
        "c", "\"", ":", "9", "0", "0", "7", "1", "9", "9", "2", "5", "4",
        "7", "4", "0", "9", "9", "3", ",", "\"", "d", "\"", ":", "9", "9",
        "9", "9", "9", "9", "9", "9", "9", "9", "9", "9", "9", "9", "9",
        "9", "9", "9", "9", "9", "9", ",", "\"", "e", "\"", ":", "1", "7",
        "9", "7", "6", "9", "3", "1", "3", "4", "8", "6", "2", "3", "1",
        "5", "8", "0", "7", "9", "3", "e", "2", "8", "8", "}", "]" >>,
   escapes |->  \* {"k":"\b\f\u00e9\ud83d\ude00\udc00\u0060\u2028\x7f"}
     << "{", "\"", "k", "\"", ":", "\"", "\\", "b", "\\", "f", "\\", "u",
        "0", "0", "e", "9", "\\", "u", "d", "8", "3", "d", "\\", "u", "d",
        "e", "0", "0", "\\", "u", "d", "c", "0", "0", "\\", "u", "0", "0",
        "6", "0", "\\", "u", "2", "0", "2", "8", "x7f", "\"", "}" >>,
   dot |->  \* 1.
     << "1", "." >>,
   huge |->  \* [{"a":1e999}]
     << "[", "{", "\"", "a", "\"", ":", "1", "e", "9", "9", "9", "}", "]" >>]

\* The Location headers a redirect may carry: a URL, a path relative to
\* the URL of the request, a URL that does not parse and one of a scheme
\* the transport does not know.
Location ==
  [absolute |->  \* https://cdn/v2/Players
     << "h", "t", "t", "p", "s", ":", "/", "/", "c", "d", "n", "/", "v",
        "2", "/", "P", "l", "a", "y", "e", "r", "s" >>,
   relative |->  \* ../v2/Players?page=1
     << ".", ".", "/", "v", "2", "/", "P", "l", "a", "y", "e", "r", "s",
        "?", "p", "a", "g", "e", "=", "1" >>,
   bad |->  \* http://h/%zz
     << "h", "t", "t", "p", ":", "/", "/", "h", "/", "%", "z", "z" >>,
   ftp |->  \* ftp://files/Players
     << "f", "t", "p", ":", "/", "/", "f", "i", "l", "e", "s", "/", "P",
        "l", "a", "y", "e", "r", "s" >>]

\* The number of runs of the program against the same cloud account.
MaxRuns == 2

Envs ==
  [dotenvErr : BOOLEAN,
   SPORTS_DATA_API_KEY : {<< >>, KeyOK},
   NBA_ENDPOINT : {<< >>} \cup {Endpoint[name] : name \in DOMAIN Endpoint}]

\* What the network may answer to the requests of one fetchNBAData: a
\* refused connection; a response with a body that arrives whole; a
\* response whose body breaks off; and redirects: one that is followed to
\* a 200 and one to a 401, one without a Location header, one that always
\* leads on, one whose Location header does not parse, one to a scheme the
\* transport does not know, and one whose next request is refused.
NetAnswers ==
  LET Bodies == {Body[name] : name \in DOMAIN Body} \cup {<< >>}
  IN
  {<< Answer(Fault.ConnRefused, 0, << >>, << >>, Nil) >>}
    \cup {<< Answer(Nil, StatusOK, << >>, body, Nil) >> : body \in Bodies}
    \cup {<< Answer(Nil, status, << >>, body, Nil) >> :
            status \in {204, 401, 500},
            body \in {Body.denied, Body.two, << >>}}
    \cup {<< Answer(Nil, StatusOK, << >>, body, readErr) >> :
            body \in {Body.two, Body.truncated, Body.number, << >>},
            readErr \in {Fault.UnexpectedEOF, Fault.ConnReset}}
    \cup {<< Answer(Nil, 500, << >>, Body.denied, Fault.ConnReset) >>,
          << Answer(Nil, 304, << >>, Body.denied, Nil) >>,
          << Answer(Nil, 302, Location.absolute, Body.denied, Nil),
             Answer(Nil, StatusOK, << >>, Body.two, Nil) >>,
          << Answer(Nil, 301, Location.relative, << >>, Nil),
             Answer(Nil, 401, << >>, Body.denied, Nil) >>,
          << Answer(Nil, 302, << >>, Body.denied, Nil) >>,
          << Answer(Nil, 307, Location.relative, << >>, Nil) >>,
          << Answer(Nil, 303, Location.bad, << >>, Nil) >>,
          << Answer(Nil, 308, Location.ftp, << >>, Nil) >>,
          << Answer(Nil, 302, Location.absolute, << >>, Nil),
             Answer(Fault.ConnRefused, 0, << >>, << >>, Nil) >>}

----------------------------------------------------------------------------
(* main, one action per step, and the other clients of the storage         *)
(* service.                                                                *)

VARIABLES
  pc,           \* where the process is: a step of main, or how it ended
  run,          \* the number of this run
  env,          \* the process environment of this run
  apiKey,       \* the global apiKey
  nbaEndpoint,  \* the global nbaEndpoint
  bucketExists, \* storage service: the account's bucket exists
  bucketTaken,  \* storage service: another account has a bucket of the name
  dbExists,     \* catalog service: the database exists
  tableExists,  \* catalog service: the table exists
  objects,      \* storage service: the body stored under the object key
  calls,        \* the external calls of this run, in order
  log,          \* the lines this run logged
  nbaData,      \* main's nbaData
  err,          \* the error the last step returned to main
  fetched,      \* the network's answers to fetchNBAData and what it did
  dbAtStart,    \* whether the database existed when this run started
  bucketCalls   \* the last two invocations of createS3Bucket, oldest first

vars ==
  << pc, run, env, apiKey, nbaEndpoint, bucketExists, bucketTaken, dbExists,
     tableExists, objects, calls, log, nbaData, err, fetched, dbAtStart,
     bucketCalls >>

\* Before fetchNBAData has run there is no answer of the network.
NotFetched ==
  [net |-> << >>, resp |-> Response(Answer(Nil, 0, << >>, << >>, Nil)),
   got |-> FALSE, decoded |-> FALSE, done |-> FALSE]

Init ==
  /\ pc = "init"
  /\ run = 1
  /\ env \in Envs
  /\ apiKey = << >>
  /\ nbaEndpoint = << >>
  /\ bucketExists \in BOOLEAN
  /\ bucketTaken \in {t \in BOOLEAN : t => ~bucketExists}
  /\ dbExists \in BOOLEAN
  /\ tableExists \in {t \in BOOLEAN : t => dbExists}
  /\ objects = << >>
  /\ calls = << >>
  /\ log = << >>
  /\ nbaData = << >>
  /\ err = Nil
  /\ fetched = NotFetched
  /\ dbAtStart = dbExists
  /\ bucketCalls = << >>

\* A variant that goes on after a failed step.  C7 does not hold of it.
StepContinue(e, next) == next

\* if err != nil { log.Fatalf(...) }: where main goes after a step.
Step(e, next) == IF e # Nil THEN "fatal" ELSE next

\* The line log.Fatalf writes, if the step failed.
Fatalf(format, e) ==
  IF e # Nil THEN << LogLine(format, ErrorText(e)) >> ELSE << >>

\* A variant that uploads every batch.  C3 does not hold of it.
ShouldUploadAlways(data) == TRUE

\* if len(nbaData) > 0: whether main calls uploadDataToS3.
ShouldUpload(data) == Len(data) > 0

InitStep ==
  /\ pc = "init"
  /\ LET r == init(env)
     IN /\ apiKey' = r.apiKey
        /\ nbaEndpoint' = r.nbaEndpoint
        /\ log' = log \o r.log
        /\ pc' = IF r.fatal THEN "fatal" ELSE "main"
  /\ UNCHANGED << run, env, bucketExists, bucketTaken, dbExists, tableExists,
                  objects, calls, nbaData, err, fetched, dbAtStart,
                  bucketCalls >>

LoadConfigStep ==
  /\ pc = "main"
  /\ \E fault \in {Nil, Fault.SharedConfig} :
       /\ err' = fault
       /\ log' = log \o Fatalf("Failed to load configuration: %v", fault)
       /\ pc' = Step(fault, "bucket")
  /\ UNCHANGED << run, env, apiKey, nbaEndpoint, bucketExists, bucketTaken,
                  dbExists, tableExists, objects, calls, nbaData, fetched,
                  dbAtStart, bucketCalls >>

\* The state of the bucket's name at the storage service.
BucketState == [exists |-> bucketExists, taken |-> bucketTaken]

\* The record of an invocation of createS3Bucket: the state of the storage
\* service when HeadBucket was answered, the calls, and once the function
\* has returned (done) its error and the state it left.
Invocation(before, made, e, after, done) ==
  [before |-> before, calls |-> made, err |-> e, after |-> after,
   done |-> done]

\* createS3Bucket up to the return of HeadBucket: the function returns
\* there unless it goes on to call CreateBucket.
HeadBucketStep ==
  /\ pc = "bucket"
  /\ \E fault \in AwsFaults :
       LET head == HeadBucket(bucketExists, bucketTaken, fault)
           call == Call("HeadBucket", bucketName, head)
           r == createS3Bucket(head, << >>)
           this == Invocation(BucketState, << call >>, r.err, BucketState,
                              ~r.create)
       IN /\ calls' = Append(calls, call)
          /\ bucketCalls' = IF bucketCalls = << >> THEN << this >>
                            ELSE << bucketCalls[Len(bucketCalls)], this >>
          /\ IF r.create
             THEN /\ pc' = "createBucket"
                  /\ UNCHANGED << err, log >>
             ELSE /\ err' = r.err
                  /\ log' = log \o r.log
                              \o Fatalf("Failed to create S3 bucket: %v", r.err)
                  /\ pc' = Step(r.err, "database")
  /\ UNCHANGED << run, env, apiKey, nbaEndpoint, bucketExists, bucketTaken,
                  dbExists, tableExists, objects, nbaData, fetched,
                  dbAtStart >>

\* createS3Bucket from the call of CreateBucket on.  The run is the only
\* writer of the bucket's name, so the service answers from the state the
\* probe saw.
CreateBucketStep ==
  /\ pc = "createBucket"
  /\ \E fault \in AwsFaults, owned \in {Nil, Fault.AlreadyOwned} :
       LET c == CreateBucket(bucketExists, bucketTaken, fault, owned)
           call == Call("CreateBucket", bucketName, c.err)
           r == createS3Bucket(calls[Len(calls)].err, << c.err >>)
           pending == bucketCalls[Len(bucketCalls)]
           this == Invocation(pending.before, Append(pending.calls, call),
                              r.err, [BucketState EXCEPT !.exists = c.exists],
                              TRUE)
       IN /\ bucketExists' = c.exists
          /\ calls' = Append(calls, call)
          /\ bucketCalls' = [bucketCalls EXCEPT ![Len(bucketCalls)] = this]
          /\ err' = r.err
          /\ log' = log \o r.log
                      \o Fatalf("Failed to create S3 bucket: %v", r.err)
          /\ pc' = Step(r.err, "database")
  /\ UNCHANGED << run, env, apiKey, nbaEndpoint, bucketTaken, dbExists,
                  tableExists, objects, nbaData, fetched, dbAtStart >>

\* time.Sleep(5 * time.Second) between the two steps changes no state.
DatabaseStep ==
  /\ pc = "database"
  /\ \E fault \in AwsFaults :
       LET r == createGlueDatabase(dbExists, fault)
       IN /\ dbExists' = r.exists
          /\ calls' = calls \o r.calls
          /\ err' = r.err
          /\ log' = log \o Fatalf("Failed to create Glue database: %v", r.err)
          /\ pc' = Step(r.err, "fetch")
  /\ UNCHANGED << run, env, apiKey, nbaEndpoint, bucketExists, bucketTaken,
                  tableExists, objects, nbaData, fetched, dbAtStart,
                  bucketCalls >>

FetchStep ==
  /\ pc = "fetch"
  /\ \E net \in NetAnswers :
       \E r \in {fetchNBAData(nbaEndpoint, apiKey, net)} :
          /\ fetched' = [net |-> net, resp |-> r.resp, got |-> r.got,
                         decoded |-> r.decoded, done |-> TRUE]
          /\ calls' = IF r.calls = << >> THEN calls
                       ELSE Append(calls,
                                   Call("GET",
                                        [url |-> r.calls[1].arg.url,
                                         header |-> apiKey,
                                         requests |-> r.calls],
                                        IF r.got THEN Nil ELSE Tail(r.err)))
          /\ nbaData' = r.data
          /\ err' = r.err
          /\ log' = IF r.panic THEN log
                    ELSE log \o Fatalf("Failed to fetch NBA data: %v", r.err)
          /\ pc' = IF r.panic THEN "panic" ELSE Step(r.err, "upload")
  /\ UNCHANGED << run, env, apiKey, nbaEndpoint, bucketExists, bucketTaken,
                  dbExists, tableExists, objects, dbAtStart, bucketCalls >>

UploadStep ==
  /\ pc = "upload"
  /\ IF ShouldUpload(nbaData)
     THEN \E fault \in AwsFaults :
            LET r == uploadDataToS3(objects, bucketName, nbaData, fault)
            IN /\ objects' = r.objects
               /\ calls' = calls \o r.calls
               /\ err' = r.err
               /\ log' = log
                           \o Fatalf("Failed to upload data to S3: %v", r.err)
               /\ pc' = Step(r.err, "table")
     ELSE /\ pc' = "table"
          /\ UNCHANGED << objects, calls, err, log >>
  /\ UNCHANGED << run, env, apiKey, nbaEndpoint, bucketExists, bucketTaken,
                  dbExists, tableExists, nbaData, fetched, dbAtStart,
                  bucketCalls >>

TableStep ==
  /\ pc = "table"
  /\ \E fault \in AwsFaults :
       LET r == createGlueTable(tableExists, fault)
       IN /\ tableExists' = r.exists
          /\ calls' = calls \o r.calls
          /\ err' = r.err
          /\ log' = log \o Fatalf("Failed to create Glue table: %v", r.err)
          /\ pc' = Step(r.err, "athena")
  /\ UNCHANGED << run, env, apiKey, nbaEndpoint, bucketExists, bucketTaken,
                  dbExists, objects, nbaData, fetched, dbAtStart,
                  bucketCalls >>

AthenaStep ==
  /\ pc = "athena"
  /\ \E fault \in AwsFaults :
       LET r == configureAthena(fault)
       IN /\ calls' = calls \o r.calls
          /\ err' = r.err
          /\ log' = IF r.err # Nil
                    THEN log \o Fatalf("Failed to configure Athena: %v", r.err)
                    ELSE log \o << LogLine("Data lake setup complete.", << >>) >>
          /\ pc' = Step(r.err, "done")
  /\ UNCHANGED << run, env, apiKey, nbaEndpoint, bucketExists, bucketTaken,
                  dbExists, tableExists, objects, nbaData, fetched,
                  dbAtStart, bucketCalls >>

\* The program is started again, against the cloud account as the last run
\* left it.
Restart ==
  /\ pc \in {"done", "fatal", "panic"}
  /\ run < MaxRuns
  /\ run' = run + 1
  /\ env' \in Envs
  /\ pc' = "init"
  /\ apiKey' = << >>
  /\ nbaEndpoint' = << >>
  /\ calls' = << >>
  /\ log' = << >>
  /\ nbaData' = << >>
  /\ err' = Nil
  /\ fetched' = NotFetched
  /\ dbAtStart' = dbExists
  /\ UNCHANGED << bucketExists, bucketTaken, dbExists, tableExists, objects,
                  bucketCalls >>

Next ==
  \/ InitStep
  \/ LoadConfigStep
  \/ HeadBucketStep
  \/ CreateBucketStep
  \/ DatabaseStep
  \/ FetchStep
  \/ UploadStep
  \/ TableStep
  \/ AthenaStep
  \/ Restart

Spec == Init /\ [][Next]_vars

----------------------------------------------------------------------------
(* What the claims speak of. *)

HasCall(op) == \E i \in 1..Len(calls) : calls[i].op = op

LastLog == log[Len(log)]

\* The run ended in main's log.Fatalf of the given step.
FailedAt(format) ==
  pc = "fatal" /\ log # << >> /\ LastLog.format = format

FetchFailed == FailedAt("Failed to fetch NBA data: %v")

\* client.Do returned a response to fetchNBAData.
GotResponse == fetched.done /\ fetched.got /\ HasCall("GET")

\* fetchNBAData returned a batch and no error.
FetchReturnedBatch == fetched.done /\ pc # "panic" /\ ~FetchFailed

\* The response had the status 200 and the given body, which arrived whole.
Fetched200(body) ==
  /\ GotResponse
  /\ fetched.resp = Response(Answer(Nil, StatusOK, << >>, body, Nil))

\* The number of occurrences of a character in a text.
RECURSIVE CountChar(_, _)
CountChar(s, c) ==
  IF s = << >> THEN 0
  ELSE (IF Head(s) = c THEN 1 ELSE 0) + CountChar(Tail(s), c)

\* The lines of a text, each without the newline that ends it; what
\* follows the last newline is a line only if it is not empty.
RECURSIVE SplitLines(_, _)
SplitLines(s, cur) ==
  IF s = << >> THEN (IF cur = << >> THEN << >> ELSE << cur >>)
  ELSE IF Head(s) = "\n" THEN << cur >> \o SplitLines(Tail(s), << >>)
  ELSE SplitLines(Tail(s), Append(cur, Head(s)))

\* The bodies that are written for four of the sample responses.
Expected ==
  [two |->  \* {"id":"1","name":"A"}\n{"id":"2","name":"B"}\n
     << "{", "\"", "i", "d", "\"", ":", "\"", "1", "\"", ",", "\"", "n",
        "a", "m", "e", "\"", ":", "\"", "A", "\"", "}", "\n", "{", "\"",
        "i", "d", "\"", ":", "\"", "2", "\"", ",", "\"", "n", "a", "m",
        "e", "\"", ":", "\"", "B", "\"", "}", "\n" >>,
   object |->  \* {"id":"1","name":"A"}\n
     << "{", "\"", "i", "d", "\"", ":", "\"", "1", "\"", ",", "\"", "n",
        "a", "m", "e", "\"", ":", "\"", "A", "\"", "}", "\n" >>,
   floats |->  \* {"a":1.5,"b":100,"c":-0,"d":2.5e-7}\n
     << "{", "\"", "a", "\"", ":", "1", ".", "5", ",", "\"", "b", "\"",
        ":", "1", "0", "0", ",", "\"", "c", "\"", ":", "-", "0", ",", "\"",
        "d", "\"", ":", "2", ".", "5", "e", "-", "7", "}", "\n" >>,
   long |->  \* {"a":123456789012345680,"b":0.12345678901234568,"c":9007199254740992,"d":1e+21,"e":1.7976931348623157e+308}\n
     << "{", "\"", "a", "\"", ":", "1", "2", "3", "4", "5", "6", "7", "8",
        "9", "0", "1", "2", "3", "4", "5", "6", "8", "0", ",", "\"", "b",
        "\"", ":", "0", ".", "1", "2", "3", "4", "5", "6", "7", "8", "9",
        "0", "1", "2", "3", "4", "5", "6", "8", ",", "\"", "c", "\"", ":",
        "9", "0", "0", "7", "1", "9", "9", "2", "5", "4", "7", "4", "0",
        "9", "9", "2", ",", "\"", "d", "\"", ":", "1", "e", "+", "2", "1",
        ",", "\"", "e", "\"", ":", "1", ".", "7", "9", "7", "6", "9", "3",
        "1", "3", "4", "8", "6", "2", "3", "1", "5", "7", "e", "+", "3",
        "0", "8", "}", "\n" >>,
   escapes |->  \* {"k":"\b\f\xc3\xa9\xf0\x9f\x98\x80\xef\xbf\xbd\x60\u2028\x7f"}\n
     << "{", "\"", "k", "\"", ":", "\"", "\\", "b", "\\", "f", "xc3",
        "xa9", "xf0", "x9f", "x98", "x80", "xef", "xbf", "xbd", "x60",
        "\\", "u", "2", "0", "2", "8", "x7f", "\"", "}", "\n" >>]

\* id
KeyId ==
  << "i", "d" >>

----------------------------------------------------------------------------
(* C1 *)

\* C1 as stated: for a 200 response whose body arrived whole, a body that
\* is a JSON array of N objects gives a batch of exactly N records in the
\* array's order (N = 0 included), a body that is one JSON object a batch
\* of that one record, and a top-level string, number, boolean or null the
\* error "unexpected JSON structure" and no batch.  The body is JSON when
\* the decoder finds no syntax error in it; a number that float64 cannot
\* hold is decoded as nil and reported in a *json.UnmarshalTypeError, so
\* with that error a top-level nil stands for a number.
C1_FetchShapes ==
  (GotResponse /\ fetched.resp.StatusCode = StatusOK
     /\ fetched.resp.readErr = Nil) =>
    \E d \in {Decode(fetched.resp.Body, Nil)} :
      (d.err = Nil \/ ErrorsAs(d.err, "*json.UnmarshalTypeError")) =>
        /\ (d.v.t = "slice" /\ \A i \in 1..Len(d.v.a) : d.v.a[i].t = "map") =>
             /\ FetchReturnedBatch
             /\ Len(nbaData) = Len(d.v.a)
        /\ d.v.t = "map" =>
             /\ FetchReturnedBatch
             /\ Len(nbaData) = 1
        /\ d.v.t \in {"string", "float64", "bool", "nil"} =>
             /\ FetchFailed
             /\ ErrorText(err) = Msg.unexpected
             /\ nbaData = << >>

\* C1, amended: for a 200 response whose body encoding/json decodes
\* without error, a body that is a JSON array of N objects gives a batch
\* of exactly N records in the array's order (N = 0 included), a body that
\* is one JSON object a batch of that one record, and a top-level string,
\* number, boolean or null the error "unexpected JSON structure" and no
\* batch.  When the decoder returns an error (the body is not JSON, it
\* did not arrive whole, or it holds a number that float64 cannot hold, as
\* [{"a":1e999}] does), fetchNBAData returns that error unchanged and no
\* batch.  The body is what the reads of resp.Body delivered.
C1_FetchShapesDecoded ==
  (GotResponse /\ fetched.resp.StatusCode = StatusOK) =>
    \E d \in {Decode(fetched.resp.Body, fetched.resp.readErr)} :
       /\ (d.err = Nil /\ d.v.t = "slice"
             /\ \A i \in 1..Len(d.v.a) : d.v.a[i].t = "map") =>
            /\ FetchReturnedBatch
            /\ Len(nbaData) = Len(d.v.a)
            /\ \A i \in 1..Len(d.v.a) : nbaData[i] = d.v.a[i].m
       /\ (d.err = Nil /\ d.v.t = "map") =>
            /\ FetchReturnedBatch
            /\ nbaData = << d.v.m >>
       /\ (d.err = Nil /\ d.v.t \in {"string", "float64", "bool", "nil"}) =>
            /\ FetchFailed
            /\ ErrorText(err) = Msg.unexpected
            /\ nbaData = << >>
       /\ d.err # Nil =>
            /\ FetchFailed
            /\ err = d.err
            /\ nbaData = << >>
       /\ Fetched200(Body.two) =>
            /\ Len(nbaData) = 2
            /\ nbaData[1][KeyId] = JStr(<< "1" >>)
            /\ nbaData[2][KeyId] = JStr(<< "2" >>)
       /\ Fetched200(Body.emptyArray) =>
            FetchReturnedBatch /\ nbaData = << >>
       /\ Fetched200(Body.object) =>
            /\ FetchReturnedBatch
            /\ Len(nbaData) = 1
            /\ nbaData[1][KeyId] = JStr(<< "1" >>)
       /\ (fetched.resp.readErr = Nil
             /\ fetched.resp.Body \in {Body.string, Body.number, Body.true,
                                       Body.null}) =>
            nbaData = << >> /\ FetchFailed /\ ErrorText(err) = Msg.unexpected
       /\ Fetched200(Body.huge) =>
            /\ FetchFailed
            /\ nbaData = << >>
            /\ ErrorsAs(err, "*json.UnmarshalTypeError")

\* The two-object array was fetched and main holds its two records.
C1_Witness ==
  /\ Fetched200(Body.two)
  /\ pc = "upload"
  /\ Len(nbaData) = 2

----------------------------------------------------------------------------
(* C2 and C9: createS3Bucket *)

\* The number of CreateBucket calls of one invocation of createS3Bucket.
Creates(inv) ==
  Cardinality({i \in 1..Len(inv.calls) : inv.calls[i].op = "CreateBucket"})

\* The storage service answered every call of the invocation from the
\* state of the account's bucket: it injected no failure of its own, and
\* the name was not taken by another account.
AnsweredFromState(inv) ==
  \A i \in 1..Len(inv.calls) :
    inv.calls[i].err \in {Nil, Fault.NotFound, Fault.AlreadyOwned}

\* The existence probe of an invocation failed with something other than
\* "not found".
ProbeFailedOtherwise(inv) ==
  /\ inv.calls[1].err # Nil
  /\ ~ErrorsAs(inv.calls[1].err, "*types.NotFound")

\* C2: createS3Bucket is idempotent.  Starting with the bucket absent or
\* present, two calls in a row, each answered by the storage service from
\* the bucket's state, issue at most one CreateBucket call in total (one
\* if the first probe found no bucket, none if it found one) and leave the
\* bucket existing; the second call issues no CreateBucket call and
\* returns no error, and neither does the first.
C2_BucketIdempotent ==
  (Len(bucketCalls) = 2
     /\ bucketCalls[2].done
     /\ AnsweredFromState(bucketCalls[1])
     /\ AnsweredFromState(bucketCalls[2])) =>
    LET first == bucketCalls[1]
        second == bucketCalls[2]
    IN /\ first.done
       /\ first.after.exists
       /\ second.before = first.after
       /\ Creates(first) + Creates(second) <= 1
       /\ Creates(first) = (IF first.before.exists THEN 0 ELSE 1)
       /\ first.err = Nil
       /\ second.after.exists
       /\ second.err = Nil
       /\ Creates(second) = 0
       /\ bucketExists

\* The bucket was absent, the first call created it and a second call was
\* made.
C2_Witness ==
  /\ Len(bucketCalls) = 2
  /\ bucketCalls[2].done
  /\ AnsweredFromState(bucketCalls[1])
  /\ AnsweredFromState(bucketCalls[2])
  /\ ~bucketCalls[1].before.exists
  /\ Creates(bucketCalls[1]) = 1
  /\ bucketCalls[1].err = Nil
  /\ pc = "database"

\* CreateBucket is issued only after a probe that failed with "not found".
CreateOnlyAfterNotFound(inv) ==
  \A i \in 1..Len(inv.calls) :
    inv.calls[i].op = "CreateBucket" =>
      /\ i > 1
      /\ inv.calls[i - 1].op = "HeadBucket"
      /\ ErrorsAs(inv.calls[i - 1].err, "*types.NotFound")

\* C9 as stated: when the probe fails with anything other than "not
\* found", createS3Bucket issues no CreateBucket call, leaves the storage
\* state unchanged and returns the probe failure unchanged; CreateBucket
\* is issued only after a probe that failed with "not found".
C9_ProbeFailureUnchanged ==
  \A k \in 1..Len(bucketCalls) :
    LET inv == bucketCalls[k]
    IN /\ ProbeFailedOtherwise(inv) =>
            /\ inv.done
            /\ Creates(inv) = 0
            /\ inv.after = inv.before
            /\ inv.err = inv.calls[1].err
       /\ CreateOnlyAfterNotFound(inv)

\* C9, amended: when the probe fails with anything other than "not found",
\* createS3Bucket issues no CreateBucket call, leaves the storage state
\* unchanged and returns an error that wraps the probe failure: its text
\* is "failed to check if bucket exists: " followed by the failure's text,
\* and unwrapping it gives the failure itself.  CreateBucket is issued
\* only after a probe that failed with "not found".
C9_ProbeFailureWrapped ==
  \A k \in 1..Len(bucketCalls) :
    LET inv == bucketCalls[k]
    IN /\ ProbeFailedOtherwise(inv) =>
            /\ inv.done
            /\ Creates(inv) = 0
            /\ Len(inv.calls) = 1
            /\ inv.after = inv.before
            /\ inv.err # Nil
            /\ ErrorText(inv.err)
                 = Msg.checkBucket \o ErrorText(inv.calls[1].err)
            /\ Tail(inv.err) = inv.calls[1].err
       /\ CreateOnlyAfterNotFound(inv)

\* The probe was answered "access denied" and the run ended there.
C9_Witness ==
  /\ bucketCalls # << >>
  /\ ProbeFailedOtherwise(bucketCalls[Len(bucketCalls)])
  /\ FailedAt("Failed to create S3 bucket: %v")
  /\ calls[Len(calls)].op = "HeadBucket"
  /\ calls[Len(calls)].err = Fault.AccessDenied

----------------------------------------------------------------------------
(* C3 and C4: the upload *)

\* C3: with a batch of zero records no PutObject request is sent, and the
\* upload step reports no error: the run goes on to the table step, and if
\* it fails later it is not in the upload.
C3_EmptyBatchNoWrite ==
  nbaData = << >> =>
    /\ ~HasCall("PutObject")
    /\ ~FailedAt("Failed to upload data to S3: %v")
    /\ (FetchReturnedBatch /\ pc = "table") => (err = Nil /\ objects = << >>)

\* An empty array was fetched and the run is past the upload step.
C3_Witness ==
  /\ FetchReturnedBatch
  /\ Fetched200(Body.emptyArray)
  /\ nbaData = << >>
  /\ pc = "table"

\* C4: the body of the write has exactly one line per record of the batch,
\* line i being the JSON serialization of record i (and parsing back to
\* it), every line newline-terminated, the last included; the
\* ContentLength sent is the byte length of the body; the two-object
\* response of the end-to-end scenario is written as its two objects, each
\* followed by a newline.
C4_LineDelimited ==
  \A k \in 1..Len(calls) :
    calls[k].op = "PutObject" =>
      \E input \in {calls[k].arg} :
        \E lines \in {SplitLines(input.Body, << >>)} :
          /\ input.ContentLength = Len(input.Body)
          /\ CountChar(input.Body, "\n") = Len(nbaData)
          /\ Len(lines) = Len(nbaData)
          /\ input.Body[Len(input.Body)] = "\n"
          /\ \A i \in 1..Len(nbaData) :
               /\ lines[i] = Marshal(JObj(nbaData[i]))
               /\ \E d \in {Decode(lines[i], Nil)} :
                    /\ d.err = Nil
                    /\ d.v = JObj(nbaData[i])
                    /\ d.n = Len(lines[i])
          /\ \A name \in DOMAIN Expected :
               fetched.resp.Body = Body[name] => input.Body = Expected[name]
          /\ calls[k].err = Nil => objects = << input.Body >>

\* The two-object response was written.
C4_Witness ==
  /\ HasCall("PutObject")
  /\ Fetched200(Body.two)
  /\ objects = << Expected.two >>
  /\ pc = "table"

----------------------------------------------------------------------------
(* C5 and C6 *)

BadEnv ==
  \/ env.dotenvErr
  \/ env.SPORTS_DATA_API_KEY = << >>
  \/ env.NBA_ENDPOINT = << >>

\* C5: if .env cannot be loaded or either variable is empty, the process
\* ends in init's log.Fatal, naming what is missing, and no external call
\* of the run is issued.
C5_FailBeforeNetwork ==
  BadEnv =>
    /\ pc \in {"init", "fatal"}
    /\ calls = << >>
    /\ ~fetched.done
    /\ pc = "fatal" =>
         /\ Len(log) = 1
         /\ log[1].format =
              (IF env.dotenvErr THEN "Error loading .env file"
               ELSE IF env.SPORTS_DATA_API_KEY = << >>
               THEN "SPORTS_DATA_API_KEY is not set"
               ELSE "NBA_ENDPOINT is not set")

\* Only the endpoint is missing and init has ended the process.
C5_Witness ==
  /\ ~env.dotenvErr
  /\ env.SPORTS_DATA_API_KEY # << >>
  /\ env.NBA_ENDPOINT = << >>
  /\ pc = "fatal"

\* C6: for a response whose status is not 200, fetchNBAData returns no
\* batch and an error whose text contains the status code in decimal and
\* the body verbatim, and the body is not JSON-decoded.  The response is
\* the one client.Do returns (resp): the client follows a redirect that
\* names a Location and hands back the response at the end of the chain.
\* The body is what io.ReadAll read of it: nothing for a 204 or a 304, the
\* bytes that arrived if the connection broke.
C6_StatusError ==
  (GotResponse /\ fetched.resp.StatusCode # StatusOK) =>
    /\ FetchFailed
    /\ nbaData = << >>
    /\ ~fetched.decoded
    /\ Contains(ErrorText(err), FormatInt(fetched.resp.StatusCode))
    /\ Contains(ErrorText(err), fetched.resp.Body)
    /\ ErrorText(err) = Msg.apiReturned \o FormatInt(fetched.resp.StatusCode)
                          \o << ":", " " >> \o fetched.resp.Body
    /\ LastLog.arg = ErrorText(err)

\* A 401 with a body was received.
C6_Witness ==
  /\ GotResponse
  /\ fetched.resp.StatusCode = 401
  /\ fetched.resp.Body = Body.denied
  /\ Len(fetched.net) = 1
  /\ FetchFailed

----------------------------------------------------------------------------
(* C7, C8 and C10: the run as a whole *)

\* The external calls in the order main issues them.
CallOrder ==
  << "HeadBucket", "CreateBucket", "CreateDatabase", "GET", "PutObject",
     "CreateTable", "StartQueryExecution" >>

Rank(op) == CHOOSE r \in 1..Len(CallOrder) : CallOrder[r] = op

\* The calls a run may skip: the create after a probe that found the
\* bucket, the write of an empty batch.
Optional == {"CreateBucket", "PutObject"}

Completed ==
  \E i \in 1..Len(log) : log[i].format = "Data lake setup complete."

\* The lines log.Fatal and log.Fatalf write.
FatalLines ==
  {"Error loading .env file", "SPORTS_DATA_API_KEY is not set",
   "NBA_ENDPOINT is not set", "Failed to load configuration: %v",
   "Failed to create S3 bucket: %v", "Failed to create Glue database: %v",
   "Failed to fetch NBA data: %v", "Failed to upload data to S3: %v",
   "Failed to create Glue table: %v", "Failed to configure Athena: %v"}

\* C7: the external calls of a run are issued in the fixed order probe,
\* (create), database, GET, (write), table, query, none of them twice and
\* none before every earlier step succeeded; a step that returns an error
\* ends the run at once, with a fatal line and without the completion
\* line; the completion line is logged only after every step succeeded.
\* The GET is the program's one call of client.Do, whatever number of
\* requests the HTTP client sends for it when it follows redirects.
C7_LinearAbortOnError ==
  /\ \A i \in 1..Len(calls) : calls[i].op \in
       {CallOrder[r] : r \in 1..Len(CallOrder)}
  /\ \A i, j \in 1..Len(calls) :
       i < j => Rank(calls[i].op) < Rank(calls[j].op)
  /\ \A j \in 1..Len(calls) : \A r \in 1..Len(CallOrder) :
       (r < Rank(calls[j].op) /\ CallOrder[r] \notin Optional) =>
         \E i \in 1..(j - 1) : calls[i].op = CallOrder[r]
  /\ \A i \in 1..(Len(calls) - 1) :
       \/ calls[i].err = Nil
       \/ /\ calls[i].op = "HeadBucket"
          /\ calls[i].err = Fault.NotFound
          /\ calls[i + 1].op = "CreateBucket"
  /\ err # Nil => pc = "fatal"
  /\ pc = "fatal" => (log # << >> /\ LastLog.format \in FatalLines)
  /\ pc \in {"fatal", "panic"} => ~Completed
  /\ Completed <=> pc = "done"
  /\ pc = "done" =>
       /\ err = Nil
       /\ \A r \in 1..Len(CallOrder) :
            CallOrder[r] \notin Optional => HasCall(CallOrder[r])
       /\ HasCall("PutObject") <=> nbaData # << >>
       /\ \A i \in 1..Len(calls) :
            calls[i].err = Nil \/ calls[i].op = "HeadBucket"

\* The table step failed after every step before it had succeeded, and the
\* run ended there.
C7_Witness ==
  /\ FailedAt("Failed to create Glue table: %v")
  /\ calls # << >>
  /\ calls[Len(calls)].op = "CreateTable"
  /\ calls[Len(calls)].err # Nil
  /\ HasCall("PutObject")

\* C8: createGlueDatabase sends CreateDatabase without probing, so a run
\* that starts with the database already in the catalog fails at the
\* database step with the service's conflict error (or a failure the
\* service injected) once its bucket step has succeeded, and ends there:
\* no GET, no write, no table creation and no query submission.
C8_SecondRunConflict ==
  dbAtStart =>
    /\ pc \in {"init", "main", "bucket", "createBucket", "database", "fatal"}
    /\ \A i \in 1..Len(calls) :
         calls[i].op \in {"HeadBucket", "CreateBucket", "CreateDatabase"}
    /\ HasCall("CreateDatabase") =>
         /\ FailedAt("Failed to create Glue database: %v")
         /\ calls[Len(calls)].op = "CreateDatabase"
         /\ err \in {Fault.AlreadyExists, Fault.AccessDenied}
         /\ err = calls[Len(calls)].err
    /\ FailedAt("Failed to create Glue database: %v") =>
         HasCall("CreateDatabase")
    /\ dbExists

\* The second run found the database of the first and stopped at the
\* database step with the conflict error.
C8_Witness ==
  /\ run = 2
  /\ dbAtStart
  /\ FailedAt("Failed to create Glue database: %v")
  /\ err = Fault.AlreadyExists
  /\ Len(calls) = 2
  /\ calls[1].op = "HeadBucket" /\ calls[1].err = Nil
  /\ calls[2].op = "CreateDatabase"

\* C10: for every 200 response, a JSON array with an element that is not
\* an object included, fetchNBAData ends by returning a batch or an error,
\* never by a panic.
C10_FetchTotal ==
  (GotResponse /\ fetched.resp.StatusCode = StatusOK) => pc # "panic"

====
